---- MODULE Spec2Model ----
(***************************************************************************)
(* Resumable crawl engine of the Toronto council scraper.                  *)
(*                                                                         *)
(*   src/src/database.py      Record Store   (Database.save_items_to_db)   *)
(*   src/src/progress.py      Checkpoint Store (ProgressTracker)           *)
(*   src/src/scraper.py       modular crawl controller                     *)
(*   src/playwright_search.py standalone crawl controller (with browser    *)
(*                            restarts every pages_per_browser pages)      *)
(*                                                                         *)
(*   src/src/browser_utils.py page size, navigation, extraction            *)
(*   src/src/agenda_details.py detail scraper (process_all_items)          *)
(*   src/src/file_downloader.py file downloader (download_all)             *)
(*                                                                         *)
(* The specifications share the variables:                                 *)
(*   Spec           sequences of crawl runs with injected failures         *)
(*   SpecRun        one crawl run that is not killed, under fairness       *)
(*   SpecRestart    the standalone run replayed with and without restarts  *)
(*   SpecEquiv      the standalone run replayed by the modular controller  *)
(*   SpecDb         save_items_to_db on bounded stores and batches         *)
(*   SpecProgress   save_progress and load_progress                        *)
(*   SpecNav        go_to_page                                             *)
(*   SpecSetRows    set_rows_per_page                                      *)
(*   SpecExtract    extract_page_results                                   *)
(*   SpecDetails    runs of the detail scraper                             *)
(*   SpecDownload   download_file                                          *)
(*   SpecDownloader runs of the file downloader                            *)
(***************************************************************************)
EXTENDS Integers, Sequences, FiniteSets, TLC

\* ------------------------------------------------------------------------
\* Bounds of the model
\* ------------------------------------------------------------------------
MaxPage == 3
MaxRuns == 2
MaxBatchLen == 3
MaxSaves == 3
MaxRows == 2
MaxText == 2
MaxDataRows == 2
MaxItems == 3
MaxRetries == 3
MaxLinkedItems == 2

\* self.pages_per_browser: restart the browser every 200 pages
PagesPerBrowser == 200

\* Python's None for Optional[int] values (pages are never negative)
None == 0 - 1

\* ------------------------------------------------------------------------
\* Records (src/src/browser_utils.py:152-158) and sample values
\* ------------------------------------------------------------------------
Item(k, l, t, c, d) ==
    [item_number |-> k, link |-> l, title |-> t, committee |-> c, date |-> d]

\* one record per listing page: page p shows the item numbered p
PageItem(p) == Item(p, "l1", "t1", "c1", "d1")

\* records the Record Store specification draws its batches from:
\* two keys, and for key 1 three versions that differ in some or all fields
SampleItems ==
    { Item(1, "l1", "t1", "c1", "d1"),
      Item(1, "l2", "t2", "c2", "d2"),
      Item(1, "l1", "t1", "c1", "d2"),
      Item(2, "l1", "t1", "c1", "d1") }

\* ------------------------------------------------------------------------
\* Record Store: table agenda_items, item_number TEXT PRIMARY KEY
\* A table is a function from the item numbers present to their rows.
\* ------------------------------------------------------------------------
EmptyTable == [k \in {} |-> [link |-> "", title |-> "", committee |-> "",
                             date |-> "", created_at |-> 0]]

\* INSERT INTO agenda_items (item_number, link, title, committee, date)
\* created_at takes DEFAULT CURRENT_TIMESTAMP
InsertRow(tbl, item, now) ==
    [k \in DOMAIN tbl \cup {item.item_number} |->
        IF k = item.item_number
        THEN [link |-> item.link, title |-> item.title,
              committee |-> item.committee, date |-> item.date,
              created_at |-> now]
        ELSE tbl[k]]

\* UPDATE agenda_items SET link, title, committee, date WHERE item_number = ?
\* (a WHERE that matches no row changes nothing)
UpdateRowStamped(tbl, item, now) ==
    [k \in DOMAIN tbl |->
        IF k = item.item_number
        THEN [link |-> item.link, title |-> item.title,
              committee |-> item.committee, date |-> item.date,
              created_at |-> now]
        ELSE tbl[k]]

UpdateRow(tbl, item, now) ==
    [k \in DOMAIN tbl |->
        IF k = item.item_number
        THEN [link |-> item.link, title |-> item.title,
              committee |-> item.committee, date |-> item.date,
              created_at |-> tbl[k].created_at]
        ELSE tbl[k]]

\* [item for item in items if item['item_number'] not in existing_items]
RECURSIVE FilterItems(_, _, _)
FilterItems(items, existing, wantExisting) ==
    IF items = <<>> THEN <<>>
    ELSE LET h == Head(items)
             r == FilterItems(Tail(items), existing, wantExisting)
         IN IF (h.item_number \in existing) = wantExisting
            THEN <<h>> \o r ELSE r

\* c.executemany(INSERT ...): rows are inserted in order inside the open
\* transaction; a row whose item_number is already in the table violates the
\* PRIMARY KEY and raises sqlite3.IntegrityError
RECURSIVE ExecuteManyInsert(_, _, _)
ExecuteManyInsert(tbl, items, now) ==
    IF items = <<>> THEN [raised |-> FALSE, tbl |-> tbl]
    ELSE IF Head(items).item_number \in DOMAIN tbl
         THEN [raised |-> TRUE, tbl |-> tbl]
         ELSE ExecuteManyInsert(InsertRow(tbl, Head(items), now),
                                Tail(items), now)

\* c.executemany(UPDATE ...)
RECURSIVE ExecuteManyUpdate(_, _, _)
ExecuteManyUpdate(tbl, items, now) ==
    IF items = <<>> THEN tbl
    ELSE ExecuteManyUpdate(UpdateRow(tbl, Head(items), now), Tail(items), now)

\* what the database file holds when the connection is closed after an
\* exception, without commit: the open transaction is rolled back
RollbackPartial(committed, working) == working

Rollback(committed, working) == committed

\* Database.save_items_to_db(items).  dbFault: the database raises on its own
\* (locked file, disk full) at connect, execute or commit.
\* Result: raised (the call raised), tbl (the table on disk afterwards).
save_items_to_db(tbl, items, now, dbFault) ==
    IF items = <<>> THEN [raised |-> FALSE, tbl |-> tbl]
    ELSE
    LET item_numbers   == { items[i].item_number : i \in 1..Len(items) }
        existing_items == item_numbers \cap DOMAIN tbl
        new_items      == FilterItems(items, existing_items, FALSE)
        update_items   == FilterItems(items, existing_items, TRUE)
        ins == ExecuteManyInsert(tbl, new_items, now)
        upd == ExecuteManyUpdate(ins.tbl, update_items, now)
    IN  IF ins.raised THEN [raised |-> TRUE, tbl |-> Rollback(tbl, ins.tbl)]
        ELSE IF dbFault THEN [raised |-> TRUE, tbl |-> Rollback(tbl, upd)]
        ELSE [raised |-> FALSE, tbl |-> upd]

\* ------------------------------------------------------------------------
\* Checkpoint Store: the progress file scraping_progress.json
\* ------------------------------------------------------------------------
NoProgressFile == [exists |-> FALSE, readable |-> FALSE, last_completed_page |-> 0]

ProgressFile(p) == [exists |-> TRUE, readable |-> TRUE, last_completed_page |-> p]

\* outcomes of one save_progress call: the write succeeds; open() fails and
\* the file is untouched; open(.., 'w') has truncated the file and json.dump
\* fails, leaving a file that json.load cannot read
WriteOutcomes == {"ok", "open_fails", "dump_fails"}

\* save_progress that leaves an existing file as it is
save_progressOnce(file, current_page, w) ==
    IF file.exists THEN file
    ELSE IF w = "ok" THEN ProgressFile(current_page) ELSE file

\* ProgressTracker.save_progress: every exception is logged and swallowed
save_progress(file, current_page, w) ==
    CASE w = "ok"         -> ProgressFile(current_page)
      [] w = "open_fails" -> file
      [] w = "dump_fails" -> [exists |-> TRUE, readable |-> FALSE,
                              last_completed_page |-> 0]

\* ProgressTracker.load_progress
load_progress(file) ==
    IF file.exists /\ file.readable THEN file.last_completed_page ELSE None

\* ------------------------------------------------------------------------
\* Helpers of scrape_agenda_items
\* ------------------------------------------------------------------------
\* Python truthiness of an Optional[int]: None and 0 are false
Truthy(x) == x # None /\ x # 0

\* starting page: current_page = last_page + 1 if last_page and
\* last_page >= start_page else start_page
ResumePageStale(last_page, start) ==
    IF Truthy(last_page) /\ last_page >= start THEN last_page ELSE start

\* resuming only from a checkpoint above the range start
ResumePageStrict(last_page, start) ==
    IF Truthy(last_page) /\ last_page > start THEN last_page + 1 ELSE start

\* current_page = last_page + 1 if last_page and last_page >= start_page
\*                else start_page
ResumePage(last_page, start) ==
    IF Truthy(last_page) /\ last_page >= start THEN last_page + 1 ELSE start

\* next_page = current_page + 1, advancing by two instead
NextPageSkipping(current_page) == current_page + 2

\* next_page = current_page: the loop stays on its page
NextPageSame(current_page) == current_page

\* next_page = current_page + 1
NextPage(current_page) == current_page + 1

\* the checkpoint rounded up to the next multiple of the interval
LastCheckpointAhead(page, ppc) == page + ppc - (page % ppc)

\* last_checkpoint = current_page - (current_page % self.pages_per_checkpoint)
LastCheckpoint(page, ppc) == page - (page % ppc)

\* go_to_page that takes the click for the arrival
go_to_pageUnverified(page_number, present, raises, indicator) ==
    present /\ ~raises

\* BrowserUtils.go_to_page(page, page_number): present is whether the
\* pagination link of page_number exists, raises whether a browser action
\* raises, indicator the page named by the active-page element (None: no
\* element or no title)
go_to_page(page_number, present, raises, indicator) ==
    IF ~present THEN FALSE
    ELSE IF raises THEN FALSE
    ELSE IF indicator = None THEN FALSE
    ELSE indicator = page_number

\* the page the browser displays after go_to_page: the click is the only step
\* that changes it
ShownAfter(shown, page_number, present, raises, indicator) ==
    IF present /\ ~raises /\ indicator # None THEN indicator ELSE shown

\* wait_for_table_update whose second wait is not inside a try block
wait_for_table_updateUncaught(first, second) ==
    IF first = "ok" THEN [waits |-> 1, raised |-> FALSE]
    ELSE IF first = "timeout"
         THEN [waits |-> 2, raised |-> second # "ok"]
    ELSE [waits |-> 1, raised |-> FALSE]

\* BrowserUtils.wait_for_table_update: first and second are the outcomes of
\* the 5 s and the 10 s wait_for_selector ("ok", "timeout" for
\* PlaywrightTimeoutError, "error" for any other exception); the result is
\* the number of waits made and whether an exception left the function
wait_for_table_update(first, second) ==
    IF first = "ok" THEN [waits |-> 1, raised |-> FALSE]
    ELSE IF first = "timeout" THEN [waits |-> 2, raised |-> FALSE]
    ELSE [waits |-> 1, raised |-> FALSE]

\* max_attempts = 3 (browser_utils.py line 69)
max_attempts == 3

\* a verification loop that accepts an unchanged row count
RECURSIVE VerifyRowsNotFewer(_, _, _, _)
VerifyRowsNotFewer(attempt, initial_rows, seen, raises_at) ==
    IF raises_at = attempt THEN [result |-> FALSE, attempts |-> attempt]
    ELSE IF seen[attempt] >= initial_rows
         THEN [result |-> TRUE, attempts |-> attempt]
    ELSE IF attempt < max_attempts
         THEN VerifyRowsNotFewer(attempt + 1, initial_rows, seen, raises_at)
    ELSE [result |-> FALSE, attempts |-> attempt]

\* lines 70-82: for attempt in range(max_attempts); seen[k] is the number of
\* rows found at attempt k, raises_at the attempt whose row count raises
RECURSIVE VerifyRows(_, _, _, _)
VerifyRows(attempt, initial_rows, seen, raises_at) ==
    IF raises_at = attempt THEN [result |-> FALSE, attempts |-> attempt]
    ELSE IF seen[attempt] > initial_rows
         THEN [result |-> TRUE, attempts |-> attempt]
    ELSE IF attempt < max_attempts
         THEN VerifyRows(attempt + 1, initial_rows, seen, raises_at)
    ELSE [result |-> FALSE, attempts |-> attempt]

\* BrowserUtils.set_rows_per_page: raises_at = 0 is an exception before the
\* verification loop (selector, select_option, wait_for_function)
set_rows_per_page(initial_rows, is_selected, first, second, seen, raises_at) ==
    IF raises_at = 0 \/ ~is_selected
    THEN [result |-> FALSE, attempts |-> 0, waits |-> 0, raised |-> FALSE]
    ELSE LET w == wait_for_table_update(first, second)
             v == VerifyRows(1, initial_rows, seen, raises_at)
         IN [result |-> v.result, attempts |-> v.attempts,
             waits |-> w.waits, raised |-> w.raised]

\* text of a table cell: a sequence of characters, of which the space and the
\* newline are whitespace
Whitespace == {" ", "\n"}

RECURSIVE LStrip(_)
LStrip(text) ==
    IF text # <<>> /\ Head(text) \in Whitespace THEN LStrip(Tail(text))
    ELSE text

RECURSIVE RStrip(_)
RStrip(text) ==
    IF text # <<>> /\ text[Len(text)] \in Whitespace
    THEN RStrip(SubSeq(text, 1, Len(text) - 1))
    ELSE text

\* str.strip()
Strip(text) == RStrip(LStrip(text))

\* text.split('\n')[0]
RECURSIVE FirstLine(_)
FirstLine(text) ==
    IF text = <<>> \/ Head(text) = "\n" THEN <<>>
    ELSE <<Head(text)>> \o FirstLine(Tail(text))

\* a row handled without the test 'if not item_number: continue'
extract_rowUnchecked(row) ==
    IF row.raises THEN <<>>
    ELSE IF row.link_count = 0 THEN <<>>
    ELSE LET item_number == Strip(FirstLine(Strip(row.text)))
         IN IF row.href
            THEN <<Item(item_number, "l1", "t1", "c1", "d1")>>
            ELSE <<>>

\* lines 134-162, one pass of 'for row in data_rows': the items the row
\* adds; an exception in the row is caught and the row skipped
extract_row(row) ==
    IF row.raises THEN <<>>
    ELSE IF row.link_count = 0 THEN <<>>
    ELSE IF Strip(row.text) = <<>> THEN <<>>
    ELSE LET item_number == Strip(FirstLine(Strip(row.text)))
         IN IF row.href
            THEN <<Item(item_number, "l1", "t1", "c1", "d1")>>
            ELSE <<>>

RECURSIVE extract_rows(_)
extract_rows(data_rows) ==
    IF data_rows = <<>> THEN <<>>
    ELSE extract_row(Head(data_rows)) \o extract_rows(Tail(data_rows))

\* extract_page_results without the outer except clause
extract_page_resultsUncaught(data_rows, locator_raises) ==
    IF locator_raises THEN [items |-> <<>>, raised |-> TRUE]
    ELSE [items |-> extract_rows(data_rows), raised |-> FALSE]

\* BrowserUtils.extract_page_results: locator_raises is an exception of
\* page.locator("table tbody tr").all(), caught by the outer except clause
extract_page_results(data_rows, locator_raises) ==
    IF locator_raises THEN [items |-> <<>>, raised |-> FALSE]
    ELSE [items |-> extract_rows(data_rows), raised |-> FALSE]

\* ------------------------------------------------------------------------
\* State
\* ------------------------------------------------------------------------
VARIABLES
    \* durable state
    store,                \* table agenda_items of agenda_items.db
    progress_file,        \* scraping_progress.json
    \* configuration (scraper_config.json) and which controller runs
    impl,                 \* "modular" (src/scraper.py), "standalone"
    start_page, end_page, pages_per_checkpoint,
    pages_per_browser,    \* standalone only
    \* the council web site
    listing,              \* page number -> records the page shows
    numPages,             \* pages the listing has: links 1..numPages exist
    inject,               \* TRUE when failures and crashes are injected
    \* locals of scrape_agenda_items
    pc, current_page, current_batch,
    browser,              \* "none" (None), "open", "closed"
    pages_since_restart,
    shown,                \* page the open browser displays
    \* history of the runs
    runs,                 \* runs started
    extracted,            \* pages extracted by the current run, in order
    navigated,            \* pages go_to_page was called for in this run
    last_page,            \* what load_progress returned to this run
    faults,               \* failures that happened to this run
    outcome,              \* "NONE", "RUNNING", "DONE", "FAILED", "CRASHED",
                          \* "INTERRUPTED"
    cause,                \* why the run left the loop early: "none", "rows",
                          \* "nav", "exception", "interrupt", "crash"
    log,                  \* save_progress calls of the current run, in order
    everExtracted,        \* pages extracted by any run
    ckpt,                 \* bookkeeping of the last checkpoint attempt
    sessions,             \* browsers launched / closed by the current run
    \* Record Store specification
    items_arg, calls, prev_store, first_store, raised,
    \* go_to_page specification: arguments, environment and result of a call
    nav,
    \* set_rows_per_page specification: inputs and result of a call
    setrows,
    \* extract_page_results specification: the rows of the table and the result
    extraction,
    \* agenda_details.py: the detail scraper, its progress file and the
    \* indices whose details are in agenda_details.db
    details,
    \* download_file specification: inputs and result of a call
    download,
    \* file_downloader.py: the downloader, its progress file and the URL the
    \* last step passed to download_file
    downloader,
    \* restart replay specification
    pass, ref

durable == <<store, progress_file>>
config  == <<impl, start_page, end_page, pages_per_checkpoint,
             pages_per_browser, listing, numPages, inject>>
locals  == <<pc, current_page, current_batch, browser, pages_since_restart,
             shown>>
history == <<runs, extracted, navigated, last_page, faults, outcome, cause,
             log, everExtracted, ckpt, sessions>>
tools   == <<details, download, downloader>>
dbvars  == <<items_arg, calls, prev_store, first_store, raised, nav, setrows,
             extraction, tools>>
replay  == <<pass, ref>>
vars    == <<durable, config, locals, history, dbvars, replay>>

NoCkpt == [active |-> FALSE, prev |-> NoProgressFile, db_raised |-> FALSE,
           prog_failed |-> FALSE, cleared |-> FALSE]

\* page contents: the first k pages show one record each, the pages after
\* them show no record (a search result that is shorter than its pagination);
\* or every page after the first repeats the record of the page before it (an
\* item was added to the listing while it was crawled)
Listings(n) ==
    { [p \in 1..n |-> IF p <= k THEN <<PageItem(p)>> ELSE <<>>] : k \in 0..n }
    \cup { [p \in 1..n |-> <<PageItem(IF p = 1 THEN 1 ELSE p - 1)>>] }

\* locals and history before the first run
IdleLocals ==
    /\ pc = "idle" /\ current_page = None /\ current_batch = <<>>
    /\ browser = "none" /\ pages_since_restart = 0 /\ shown = 0

FreshHistory ==
    /\ runs = 0 /\ extracted = <<>> /\ navigated = {} /\ last_page = None
    /\ faults = {} /\ outcome = "NONE" /\ everExtracted = {} /\ ckpt = NoCkpt
    /\ cause = "none" /\ log = <<>>
    /\ sessions = [opened |-> 0, closed |-> 0]

NoNav == [called |-> FALSE, page_number |-> 0, present |-> FALSE,
          raises |-> FALSE, indicator |-> None, shown |-> 0, result |-> FALSE]

NoSetRows == [called |-> FALSE, initial_rows |-> 0, is_selected |-> FALSE,
              first |-> "ok", second |-> "ok", seen |-> <<0, 0, 0>>,
              raises_at |-> None, result |-> FALSE, attempts |-> 0,
              waits |-> 0, raised |-> FALSE]

NoExtraction == [called |-> FALSE, data_rows |-> <<>>,
                 locator_raises |-> FALSE, items |-> <<>>, raised |-> FALSE]

\* the detail scraper before its first run: no progress file, nothing saved
NoDetails == [total |-> 0, pc |-> "idle", i |-> 0,
              progress |-> [last_index |-> 0 - 1, processed_count |-> 0],
              progress_file |-> [exists |-> FALSE, readable |-> FALSE,
                                 last_index |-> 0 - 1, processed_count |-> 0],
              saved |-> {}, runs |-> 0]

\* no call of download_file yet
NoDownload == [called |-> FALSE, max_retries |-> 0, outcomes |-> <<>>,
               result |-> FALSE, attempts |-> 0]

\* FileDownloader.load_progress without a progress file (lines 42-48);
\* failed_downloads and skipped_files are kept as the sets of their URLs
NoDownloadProgress ==
    [downloaded_files |-> {}, last_item_id |-> None, total_downloaded |-> 0,
     failed_downloads |-> {}, skipped_files |-> {}]

\* the downloader before its first run: no progress file.  ever: the URLs
\* some run added to downloaded_files; lost: a run ended without saving the
\* progress it held in memory (process death, or save_progress raised)
NoDownloader ==
    [items |-> <<>>, batch_size |-> 1, pc |-> "idle", idx |-> 0, j |-> 0,
     progress |-> NoDownloadProgress,
     progress_file |-> [exists |-> FALSE, readable |-> FALSE,
                        content |-> NoDownloadProgress],
     fetch |-> "", outcome |-> "NONE", runs |-> 0,
     ever |-> {}, lost |-> FALSE]

ToolsIdle ==
    details = NoDetails /\ download = NoDownload /\ downloader = NoDownloader

DbIdle ==
    /\ items_arg = <<>> /\ calls = 0 /\ prev_store = EmptyTable
    /\ first_store = EmptyTable /\ raised = <<>> /\ nav = NoNav
    /\ setrows = NoSetRows /\ extraction = NoExtraction
    /\ ToolsIdle

NoRef == [store |-> EmptyTable, progress |-> NoProgressFile, runs |-> 0,
          opened |-> 0, extracted |-> <<>>]

ReplayIdle == pass = 0 /\ ref = NoRef

\* configurations and listings the crawl specifications draw from
CrawlConfig ==
    /\ start_page \in 1..2
    /\ end_page \in start_page..MaxPage
    /\ pages_per_checkpoint \in 1..3
    /\ numPages \in 1..MaxPage
    /\ listing \in Listings(numPages)

\* CURRENT_TIMESTAMP as the crawl specifications see it: the second in which
\* a row is inserted is not followed there (no step of the controller reads
\* created_at); the Record Store specification advances the clock per call
CrawlTime == 0

\* a fresh installation: empty database, no progress file
Init ==
    /\ store = EmptyTable
    /\ progress_file = NoProgressFile
    /\ impl \in {"modular", "standalone"}
    /\ pages_per_browser \in
          (IF impl = "standalone" THEN {1, PagesPerBrowser} ELSE {PagesPerBrowser})
    /\ inject = TRUE
    /\ CrawlConfig
    /\ IdleLocals /\ FreshHistory /\ DbIdle /\ ReplayIdle

\* ------------------------------------------------------------------------
\* Environment choices
\* ------------------------------------------------------------------------
\* outcomes of a durable write or browser step: faults only when injected
Faulty == IF inject THEN {FALSE, TRUE} ELSE {FALSE}

Writes == IF inject THEN WriteOutcomes ELSE {"ok"}

\* outcomes of initialize_browser: it returns the browser; launch() raises and
\* no browser exists; or new_context()/new_page() raises after the launch and
\* the browser that was started is never returned to the caller
Launches == IF inject THEN {"ok", "launch_raises", "lost"} ELSE {"ok"}

\* what the active-page element can name after a click on page n
Indicators(n) == IF inject THEN {n, None, shown} ELSE {n}

\* the link of page n exists
Present(n) == n >= 1 /\ n <= numPages

\* the run is over: locals are gone
Ended(o) ==
    /\ pc' = "idle" /\ current_page' = None /\ current_batch' = <<>>
    /\ browser' = "none" /\ pages_since_restart' = 0 /\ shown' = 0
    /\ outcome' = o

\* tag of a failed navigation: the link is absent, or the browser failed
NavFault(n, ok) ==
    IF ok THEN {} ELSE IF Present(n) THEN {"fault"} ELSE {"absent"}

\* one call of save_progress: the page passed, whether the write reached the
\* file, and the place of the call
SaveCall(page, w, by) == [page |-> page, ok |-> (w = "ok"), by |-> by]

\* history of one save_items_to_db / save_progress pair
CkptStart == [active |-> TRUE, prev |-> progress_file, db_raised |-> FALSE,
              prog_failed |-> FALSE, cleared |-> FALSE]

\* ------------------------------------------------------------------------
\* Modular controller: src/src/scraper.py, scrape_agenda_items
\* ------------------------------------------------------------------------
\* lines 42-54: resolve the starting page from the progress file
Start ==
    /\ impl = "modular" /\ pc = "idle" /\ runs < MaxRuns
    /\ runs' = runs + 1
    /\ last_page' = load_progress(progress_file)
    /\ current_page' = ResumePage(load_progress(progress_file), start_page)
    /\ current_batch' = <<>>
    /\ pc' = "browser"
    /\ extracted' = <<>> /\ navigated' = {} /\ faults' = {}
    /\ outcome' = "RUNNING" /\ ckpt' = NoCkpt
    /\ cause' = "none" /\ log' = <<>>
    /\ sessions' = [opened |-> 0, closed |-> 0]
    /\ UNCHANGED <<durable, config, browser, pages_since_restart, shown,
                   everExtracted, dbvars, replay>>

\* lines 56-72: launch the browser, load the search form, run the search;
\* any step may raise, before or after browser is assigned
InitializeBrowser ==
    /\ impl = "modular" /\ pc = "browser"
    /\ \E launch \in Launches, setupRaises \in Faulty :
      LET launchRaises == launch # "ok" IN
        /\ browser' = IF launchRaises THEN "none" ELSE "open"
        /\ shown' = IF launchRaises THEN shown ELSE 1
        /\ sessions' = IF launch = "launch_raises" THEN sessions
                       ELSE [sessions EXCEPT !.opened = @ + 1]
        /\ pc' = IF launchRaises \/ setupRaises THEN "except" ELSE "rows"
        /\ faults' = faults \cup
                     (IF launchRaises \/ setupRaises THEN {"fault"} ELSE {})
    /\ UNCHANGED <<durable, config, current_page, current_batch,
                   pages_since_restart, runs, extracted, navigated, last_page, log,
                   outcome, cause, everExtracted, ckpt, dbvars, replay>>

\* lines 74-78: set_rows_per_page; False ends the run by return
SetRowsPerPage ==
    /\ impl = "modular" /\ pc = "rows"
    /\ \E rowsFail \in Faulty :
        /\ pc' = IF rowsFail THEN "finally" ELSE "goto_start"
        /\ outcome' = IF rowsFail THEN "FAILED" ELSE outcome
        /\ cause' = IF rowsFail THEN "rows" ELSE cause
        /\ faults' = faults \cup (IF rowsFail THEN {"fault"} ELSE {})
    /\ UNCHANGED <<durable, config, current_page, current_batch, browser,
                   pages_since_restart, shown, runs, extracted, navigated,
                   last_page, log, everExtracted, ckpt, sessions, dbvars, replay>>

\* lines 80-84: navigate to the starting page unless it is page 1
GoToStartPage ==
    /\ impl = "modular" /\ pc = "goto_start"
    /\ IF current_page > 1
       THEN \E raises \in Faulty, ind \in Indicators(current_page) :
            LET ok == go_to_page(current_page, Present(current_page),
                                 raises, ind)
            IN /\ navigated' = navigated \cup {current_page}
               /\ shown' = ShownAfter(shown, current_page,
                                      Present(current_page), raises, ind)
               /\ pc' = IF ok THEN "loop" ELSE "finally"
               /\ outcome' = IF ok THEN outcome ELSE "FAILED"
               /\ cause' = IF ok THEN cause ELSE "nav"
               /\ faults' = faults \cup (IF ok THEN {} ELSE {"fault"})
       ELSE /\ pc' = "loop"
            /\ UNCHANGED <<navigated, shown, outcome, cause, faults>>
    /\ UNCHANGED <<durable, config, current_page, current_batch, browser,
                   pages_since_restart, runs, extracted, last_page, log,
                   everExtracted, ckpt, sessions, dbvars, replay>>

\* line 86: while current_page <= end_page
LoopTest ==
    /\ impl = "modular" /\ pc = "loop"
    /\ pc' = IF current_page <= end_page THEN "extract" ELSE "final"
    /\ UNCHANGED <<durable, config, current_page, current_batch, browser,
                   pages_since_restart, shown, history, dbvars, replay>>

\* lines 88-90: extract the rows the browser displays, extend the batch
ExtractPage ==
    /\ impl = "modular" /\ pc = "extract"
    /\ current_batch' = current_batch \o listing[shown]
    /\ extracted' = Append(extracted, shown)
    /\ everExtracted' = everExtracted \cup {shown}
    /\ pc' = "checkpoint"
    /\ UNCHANGED <<durable, config, current_page, browser,
                   pages_since_restart, shown, runs, navigated, last_page, log,
                   faults, outcome, cause, ckpt, sessions, dbvars, replay>>

\* lines 93-96: at a multiple of pages_per_checkpoint write the batch
CheckpointDb ==
    /\ impl = "modular" /\ pc = "checkpoint"
    /\ IF current_page % pages_per_checkpoint = 0
       THEN \E dbFault \in Faulty :
            LET r == save_items_to_db(store, current_batch, CrawlTime, dbFault)
            IN /\ store' = r.tbl
               /\ ckpt' = [CkptStart EXCEPT !.db_raised = r.raised]
               /\ pc' = IF r.raised THEN "ckpt_fallback" ELSE "ckpt_progress"
               /\ faults' = faults \cup (IF r.raised THEN {"fault"} ELSE {})
       ELSE /\ pc' = "advance"
            /\ UNCHANGED <<store, ckpt, faults>>
    /\ UNCHANGED <<progress_file, config, current_page, current_batch,
                   browser, pages_since_restart, shown, runs, extracted,
                   navigated, last_page, log, outcome, cause, everExtracted, sessions,
                   dbvars, replay>>

\* lines 97-98: save_progress(current_page), then clear the batch
CheckpointProgress ==
    /\ impl = "modular" /\ pc = "ckpt_progress"
    /\ \E w \in Writes :
        /\ progress_file' = save_progress(progress_file, current_page, w)
        /\ ckpt' = [ckpt EXCEPT !.prog_failed = (w # "ok"),
                                !.cleared = (current_batch # <<>>)]
        /\ faults' = faults \cup (IF w # "ok" THEN {"fault"} ELSE {})
        /\ log' = Append(log, SaveCall(current_page, w, "checkpoint"))
    /\ current_batch' = <<>>
    /\ pc' = "advance"
    /\ UNCHANGED <<store, config, current_page, browser, pages_since_restart,
                   shown, runs, extracted, navigated, last_page, outcome, cause,
                   everExtracted, sessions, dbvars, replay>>

\* lines 99-105: the batch write raised: save last_checkpoint, re-raise
CheckpointFallback ==
    /\ impl = "modular" /\ pc = "ckpt_fallback"
    /\ \E w \in Writes :
        LET last_checkpoint == LastCheckpoint(current_page,
                                              pages_per_checkpoint)
        IN IF last_checkpoint > 0
           THEN /\ progress_file' =
                       save_progress(progress_file, last_checkpoint, w)
                /\ faults' = faults \cup
                             (IF w # "ok" THEN {"fault"} ELSE {})
                /\ log' = Append(log, SaveCall(last_checkpoint, w, "fallback"))
           ELSE UNCHANGED <<progress_file, faults, log>>
    /\ pc' = "except"
    /\ UNCHANGED <<store, config, current_page, current_batch, browser,
                   pages_since_restart, shown, runs, extracted, navigated,
                   last_page, outcome, cause, everExtracted, ckpt, sessions, dbvars,
                   replay>>

\* lines 107-117: go to the next page or leave the loop
Advance ==
    /\ impl = "modular" /\ pc = "advance"
    /\ LET next_page == NextPage(current_page)
       IN IF next_page <= end_page
          THEN \E raises \in Faulty, ind \in Indicators(next_page) :
               LET ok == go_to_page(next_page, Present(next_page),
                                    raises, ind)
               IN /\ navigated' = navigated \cup {next_page}
                  /\ shown' = ShownAfter(shown, next_page,
                                         Present(next_page), raises, ind)
                  /\ current_page' = IF ok THEN next_page ELSE current_page
                  /\ pc' = IF ok THEN "loop" ELSE "final"
                  /\ faults' = faults \cup NavFault(next_page, ok)
          ELSE /\ pc' = "final"
               /\ UNCHANGED <<navigated, shown, current_page, faults>>
    /\ UNCHANGED <<durable, config, current_batch, browser,
                   pages_since_restart, runs, extracted, last_page, log, outcome, cause,
                   everExtracted, ckpt, sessions, dbvars, replay>>

\* lines 119-122: write the remaining items, if any
FinalDb ==
    /\ impl = "modular" /\ pc = "final"
    /\ IF current_batch # <<>>
       THEN \E dbFault \in Faulty :
            LET r == save_items_to_db(store, current_batch, CrawlTime, dbFault)
            IN /\ store' = r.tbl
               /\ ckpt' = [CkptStart EXCEPT !.db_raised = r.raised]
               /\ pc' = IF r.raised THEN "final_fallback"
                        ELSE "final_progress"
               /\ faults' = faults \cup (IF r.raised THEN {"fault"} ELSE {})
               /\ UNCHANGED <<outcome, cause>>
       ELSE /\ pc' = "finally"
            /\ outcome' = "DONE" /\ cause' = cause
            /\ UNCHANGED <<store, ckpt, faults>>
    /\ UNCHANGED <<progress_file, config, current_page, current_batch,
                   browser, pages_since_restart, shown, runs, extracted,
                   navigated, last_page, log, everExtracted, sessions, dbvars,
                   replay>>

\* line 123: save_progress(current_page) after the final batch
FinalProgress ==
    /\ impl = "modular" /\ pc = "final_progress"
    /\ \E w \in Writes :
        /\ progress_file' = save_progress(progress_file, current_page, w)
        /\ ckpt' = [ckpt EXCEPT !.prog_failed = (w # "ok")]
        /\ faults' = faults \cup (IF w # "ok" THEN {"fault"} ELSE {})
        /\ log' = Append(log, SaveCall(current_page, w, "final"))
    /\ pc' = "finally"
    /\ outcome' = "DONE" /\ cause' = cause
    /\ UNCHANGED <<store, config, current_page, current_batch, browser,
                   pages_since_restart, shown, runs, extracted, navigated,
                   last_page, everExtracted, sessions, dbvars, replay>>

\* lines 124-130: the final batch write raised
FinalFallback ==
    /\ impl = "modular" /\ pc = "final_fallback"
    /\ \E w \in Writes :
        LET last_checkpoint == LastCheckpoint(current_page,
                                              pages_per_checkpoint)
        IN IF last_checkpoint > 0
           THEN /\ progress_file' =
                       save_progress(progress_file, last_checkpoint, w)
                /\ faults' = faults \cup
                             (IF w # "ok" THEN {"fault"} ELSE {})
                /\ log' = Append(log, SaveCall(last_checkpoint, w, "fallback"))
           ELSE UNCHANGED <<progress_file, faults, log>>
    /\ pc' = "except"
    /\ UNCHANGED <<store, config, current_page, current_batch, browser,
                   pages_since_restart, shown, runs, extracted, navigated,
                   last_page, outcome, cause, everExtracted, ckpt, sessions, dbvars,
                   replay>>

\* lines 132-135: except Exception: save_progress(current_page - 1)
Except ==
    /\ impl = "modular" /\ pc = "except"
    /\ \E w \in Writes :
        IF Truthy(current_page)
        THEN /\ progress_file' =
                    save_progress(progress_file, current_page - 1, w)
             /\ faults' = faults \cup (IF w # "ok" THEN {"fault"} ELSE {})
             /\ log' = Append(log, SaveCall(current_page - 1, w, "handler"))
        ELSE UNCHANGED <<progress_file, faults, log>>
    /\ pc' = "finally"
    /\ outcome' = "FAILED" /\ cause' = "exception"
    /\ UNCHANGED <<store, config, current_page, current_batch, browser,
                   pages_since_restart, shown, runs, extracted, navigated,
                   last_page, everExtracted, ckpt, sessions, dbvars, replay>>

\* lines 137-141: finally: close the browser, stop playwright
Finally ==
    /\ impl = "modular" /\ pc = "finally"
    /\ sessions' = IF browser # "none"
                   THEN [sessions EXCEPT !.closed = @ + 1] ELSE sessions
    /\ Ended(outcome) /\ cause' = cause
    /\ UNCHANGED <<durable, config, runs, extracted, navigated, last_page, log,
                   faults, everExtracted, ckpt, dbvars, replay>>

\* the process dies between two steps: locals are lost, files stay
Crash ==
    /\ inject /\ pc # "idle"
    /\ Ended("CRASHED") /\ cause' = "crash"
    /\ faults' = faults \cup {"fault"}
    /\ UNCHANGED <<durable, config, runs, extracted, navigated, last_page, log,
                   everExtracted, ckpt, sessions, dbvars, replay>>

\* KeyboardInterrupt raised inside the try block: it is not an Exception, so
\* the except clause (scraper.py 132, playwright_search.py 403) is skipped
\* and only the finally block runs
Interrupt ==
    /\ inject /\ pc \notin {"idle", "finally", "s_finally"}
    /\ pc' = IF impl = "modular" THEN "finally" ELSE "s_finally"
    /\ outcome' = "INTERRUPTED" /\ cause' = "interrupt"
    /\ faults' = faults \cup {"fault"}
    /\ UNCHANGED <<durable, config, current_page, current_batch, browser,
                   pages_since_restart, shown, runs, extracted, navigated,
                   last_page, log, everExtracted, ckpt, sessions, dbvars,
                   replay>>

\* ------------------------------------------------------------------------
\* Standalone controller: src/playwright_search.py, scrape_agenda_items
\* ------------------------------------------------------------------------
\* lines 317-330: resolve the starting page, pages_since_restart = 0
StandaloneStart ==
    /\ impl = "standalone" /\ pc = "idle" /\ runs < MaxRuns
    /\ runs' = runs + 1
    /\ last_page' = load_progress(progress_file)
    /\ current_page' = ResumePage(load_progress(progress_file), start_page)
    /\ pages_since_restart' = 0
    /\ current_batch' = <<>>
    /\ pc' = "s_loop"
    /\ extracted' = <<>> /\ navigated' = {} /\ faults' = {}
    /\ outcome' = "RUNNING" /\ ckpt' = NoCkpt
    /\ cause' = "none" /\ log' = <<>>
    /\ sessions' = [opened |-> 0, closed |-> 0]
    /\ UNCHANGED <<durable, config, browser, shown, everExtracted, dbvars,
                   replay>>

\* line 334: page is None or pages_since_restart >= self.pages_per_browser
RestartDueLate(page_is_none, since, limit) == page_is_none \/ since > limit

RestartDue(page_is_none, since, limit) == page_is_none \/ since >= limit

\* lines 332-334: loop test, then the test for a (re)start of the browser
StandaloneLoopTest ==
    /\ impl = "standalone" /\ pc = "s_loop"
    /\ IF current_page <= end_page
       THEN /\ pc' = IF RestartDue(browser = "none", pages_since_restart,
                                   pages_per_browser)
                     THEN "s_restart" ELSE "s_extract"
            /\ UNCHANGED <<outcome, cause>>
       ELSE /\ pc' = "s_finally"
            /\ outcome' = "DONE" /\ cause' = cause
    /\ UNCHANGED <<durable, config, current_page, current_batch, browser,
                   pages_since_restart, shown, runs, extracted, navigated,
                   last_page, log, faults, everExtracted, ckpt, sessions, dbvars,
                   replay>>

\* a restart that leaves the old browser open
ClosedAtRestartNone(b) == 0

\* lines 335-336: if browser: browser.close() (number of close calls)
ClosedAtRestart(b) == IF b = "none" THEN 0 ELSE 1

\* lines 335-357: close the old browser, launch a new one, rerun the search;
\* when the launch raises, browser still names the closed browser
StandaloneRestartBrowser ==
    /\ impl = "standalone" /\ pc = "s_restart"
    /\ \E launch \in Launches, setupRaises \in Faulty :
      LET launchRaises == launch # "ok" IN
        /\ browser' = IF ~launchRaises THEN "open"
                      ELSE IF browser = "none" THEN "none" ELSE "closed"
        /\ shown' = IF launchRaises THEN shown ELSE 1
        /\ pages_since_restart' =
               IF launchRaises THEN pages_since_restart ELSE 0
        /\ sessions' =
               [opened |-> sessions.opened
                             + (IF launch = "launch_raises" THEN 0 ELSE 1),
                closed |-> sessions.closed + ClosedAtRestart(browser)]
        /\ pc' = IF launchRaises \/ setupRaises THEN "s_except" ELSE "s_rows"
        /\ faults' = faults \cup
                     (IF launchRaises \/ setupRaises THEN {"fault"} ELSE {})
    /\ UNCHANGED <<durable, config, current_page, current_batch, runs,
                   extracted, navigated, last_page, log, outcome, cause, everExtracted,
                   ckpt, dbvars, replay>>

\* lines 359-363: set_rows_per_page; False leaves the loop by break
StandaloneSetRowsPerPage ==
    /\ impl = "standalone" /\ pc = "s_rows"
    /\ \E rowsFail \in Faulty :
        /\ pc' = IF rowsFail THEN "s_finally" ELSE "s_goto"
        /\ outcome' = IF rowsFail THEN "FAILED" ELSE outcome
        /\ cause' = IF rowsFail THEN "rows" ELSE cause
        /\ faults' = faults \cup (IF rowsFail THEN {"fault"} ELSE {})
    /\ UNCHANGED <<durable, config, current_page, current_batch, browser,
                   pages_since_restart, shown, runs, extracted, navigated,
                   last_page, log, everExtracted, ckpt, sessions, dbvars, replay>>

\* no navigation after a restart
NeedsNavigationNever(page) == FALSE

\* the navigation skipped for page 2 as it is for page 1
NeedsNavigationAboveTwo(page) == page > 2

\* line 366: the new browser shows page 1; navigate unless that is the page
NeedsNavigation(page) == page > 1

\* lines 365-369: bring the new browser to current_page
StandaloneGoToCurrentPage ==
    /\ impl = "standalone" /\ pc = "s_goto"
    /\ IF NeedsNavigation(current_page)
       THEN \E raises \in Faulty, ind \in Indicators(current_page) :
            LET ok == go_to_page(current_page, Present(current_page),
                                 raises, ind)
            IN /\ navigated' = navigated \cup {current_page}
               /\ shown' = ShownAfter(shown, current_page,
                                      Present(current_page), raises, ind)
               /\ pc' = IF ok THEN "s_extract" ELSE "s_finally"
               /\ outcome' = IF ok THEN outcome ELSE "FAILED"
               /\ cause' = IF ok THEN cause ELSE "nav"
               /\ faults' = faults \cup (IF ok THEN {} ELSE {"fault"})
       ELSE /\ pc' = "s_extract"
            /\ UNCHANGED <<navigated, shown, outcome, cause, faults>>
    /\ UNCHANGED <<durable, config, current_page, current_batch, browser,
                   pages_since_restart, runs, extracted, last_page, log,
                   everExtracted, ckpt, sessions, dbvars, replay>>

\* lines 371-373: extract the rows the browser displays, extend the batch
StandaloneExtractPage ==
    /\ impl = "standalone" /\ pc = "s_extract"
    /\ current_batch' = current_batch \o listing[shown]
    /\ extracted' = Append(extracted, shown)
    /\ everExtracted' = everExtracted \cup {shown}
    /\ pc' = "s_checkpoint"
    /\ UNCHANGED <<durable, config, current_page, browser,
                   pages_since_restart, shown, runs, navigated, last_page, log,
                   faults, outcome, cause, ckpt, sessions, dbvars, replay>>

\* lines 376-378: at a multiple of pages_per_checkpoint write the batch;
\* an exception reaches the handler of line 403
StandaloneCheckpointDb ==
    /\ impl = "standalone" /\ pc = "s_checkpoint"
    /\ IF current_page % pages_per_checkpoint = 0
       THEN \E dbFault \in Faulty :
            LET r == save_items_to_db(store, current_batch, CrawlTime, dbFault)
            IN /\ store' = r.tbl
               /\ ckpt' = [CkptStart EXCEPT !.db_raised = r.raised]
               /\ pc' = IF r.raised THEN "s_except" ELSE "s_ckpt_progress"
               /\ faults' = faults \cup (IF r.raised THEN {"fault"} ELSE {})
       ELSE /\ pc' = "s_advance"
            /\ UNCHANGED <<store, ckpt, faults>>
    /\ UNCHANGED <<progress_file, config, current_page, current_batch,
                   browser, pages_since_restart, shown, runs, extracted,
                   navigated, last_page, log, outcome, cause, everExtracted, sessions,
                   dbvars, replay>>

\* lines 379-380: save_progress(current_page), then clear the batch
StandaloneCheckpointProgress ==
    /\ impl = "standalone" /\ pc = "s_ckpt_progress"
    /\ \E w \in Writes :
        /\ progress_file' = save_progress(progress_file, current_page, w)
        /\ ckpt' = [ckpt EXCEPT !.prog_failed = (w # "ok"),
                                !.cleared = (current_batch # <<>>)]
        /\ faults' = faults \cup (IF w # "ok" THEN {"fault"} ELSE {})
        /\ log' = Append(log, SaveCall(current_page, w, "checkpoint"))
    /\ current_batch' = <<>>
    /\ pc' = "s_advance"
    /\ UNCHANGED <<store, config, current_page, browser, pages_since_restart,
                   shown, runs, extracted, navigated, last_page, outcome, cause,
                   everExtracted, sessions, dbvars, replay>>

\* lines 382-389, 395-396: go to the next page or stop
StandaloneAdvance ==
    /\ impl = "standalone" /\ pc = "s_advance"
    /\ LET next_page == NextPage(current_page)
       IN IF next_page <= end_page
          THEN \E raises \in Faulty, ind \in Indicators(next_page) :
               LET ok == go_to_page(next_page, Present(next_page),
                                    raises, ind)
               IN /\ navigated' = navigated \cup {next_page}
                  /\ shown' = ShownAfter(shown, next_page,
                                         Present(next_page), raises, ind)
                  /\ current_page' = IF ok THEN next_page ELSE current_page
                  /\ pages_since_restart' =
                         IF ok THEN pages_since_restart + 1
                         ELSE pages_since_restart
                  /\ pc' = IF ok THEN "s_loop" ELSE "s_final"
                  /\ faults' = faults \cup NavFault(next_page, ok)
          ELSE /\ pc' = "s_final"
               /\ UNCHANGED <<navigated, shown, current_page,
                              pages_since_restart, faults>>
    /\ UNCHANGED <<durable, config, current_batch, browser, runs, extracted,
                   last_page, log, outcome, cause, everExtracted, ckpt, sessions, dbvars,
                   replay>>

\* lines 390-392, 397-399: write the remaining items, if any
StandaloneFinalDb ==
    /\ impl = "standalone" /\ pc = "s_final"
    /\ IF current_batch # <<>>
       THEN \E dbFault \in Faulty :
            LET r == save_items_to_db(store, current_batch, CrawlTime, dbFault)
            IN /\ store' = r.tbl
               /\ ckpt' = [CkptStart EXCEPT !.db_raised = r.raised]
               /\ pc' = IF r.raised THEN "s_except" ELSE "s_final_progress"
               /\ faults' = faults \cup (IF r.raised THEN {"fault"} ELSE {})
       ELSE /\ pc' = "s_final_progress"
            /\ ckpt' = CkptStart
            /\ UNCHANGED <<store, faults>>
    /\ UNCHANGED <<progress_file, config, current_page, current_batch,
                   browser, pages_since_restart, shown, runs, extracted,
                   navigated, last_page, log, outcome, cause, everExtracted, sessions,
                   dbvars, replay>>

\* lines 393-394, 400-401: save_progress(current_page), break
StandaloneFinalProgress ==
    /\ impl = "standalone" /\ pc = "s_final_progress"
    /\ \E w \in Writes :
        /\ progress_file' = save_progress(progress_file, current_page, w)
        /\ ckpt' = [ckpt EXCEPT !.prog_failed = (w # "ok")]
        /\ faults' = faults \cup (IF w # "ok" THEN {"fault"} ELSE {})
        /\ log' = Append(log, SaveCall(current_page, w, "final"))
    /\ pc' = "s_finally"
    /\ outcome' = "DONE" /\ cause' = cause
    /\ UNCHANGED <<store, config, current_page, current_batch, browser,
                   pages_since_restart, shown, runs, extracted, navigated,
                   last_page, everExtracted, sessions, dbvars, replay>>

\* lines 403-406: except Exception: save_progress(current_page - 1)
StandaloneExcept ==
    /\ impl = "standalone" /\ pc = "s_except"
    /\ \E w \in Writes :
        IF Truthy(current_page)
        THEN /\ progress_file' =
                    save_progress(progress_file, current_page - 1, w)
             /\ faults' = faults \cup (IF w # "ok" THEN {"fault"} ELSE {})
             /\ log' = Append(log, SaveCall(current_page - 1, w, "handler"))
        ELSE UNCHANGED <<progress_file, faults, log>>
    /\ pc' = "s_finally"
    /\ outcome' = "FAILED" /\ cause' = "exception"
    /\ UNCHANGED <<store, config, current_page, current_batch, browser,
                   pages_since_restart, shown, runs, extracted, navigated,
                   last_page, everExtracted, ckpt, sessions, dbvars, replay>>

\* lines 408-412: finally: close the browser, stop playwright
StandaloneFinally ==
    /\ impl = "standalone" /\ pc = "s_finally"
    /\ sessions' = IF browser # "none"
                   THEN [sessions EXCEPT !.closed = @ + 1] ELSE sessions
    /\ Ended(outcome) /\ cause' = cause
    /\ UNCHANGED <<durable, config, runs, extracted, navigated, last_page, log,
                   faults, everExtracted, ckpt, dbvars, replay>>

StandaloneNext ==
    \/ StandaloneStart \/ StandaloneLoopTest \/ StandaloneRestartBrowser
    \/ StandaloneSetRowsPerPage \/ StandaloneGoToCurrentPage
    \/ StandaloneExtractPage \/ StandaloneCheckpointDb
    \/ StandaloneCheckpointProgress \/ StandaloneAdvance
    \/ StandaloneFinalDb \/ StandaloneFinalProgress \/ StandaloneExcept
    \/ StandaloneFinally

ModularNext ==
    \/ Start \/ InitializeBrowser \/ SetRowsPerPage \/ GoToStartPage
    \/ LoopTest \/ ExtractPage \/ CheckpointDb \/ CheckpointProgress
    \/ CheckpointFallback \/ Advance \/ FinalDb \/ FinalProgress
    \/ FinalFallback \/ Except \/ Finally

Next == ModularNext \/ StandaloneNext \/ Crash \/ Interrupt

Spec == Init /\ [][Next]_vars

\* Runs that no process death or interrupt cuts short. The controller is one
\* sequential thread and each of its steps returns (every wait has a timeout),
\* so a step that is enabled is eventually taken.
NextRun == ModularNext \/ StandaloneNext

\* one run, the last of the runs the model follows: earlier runs left either
\* no progress file or one naming a checkpoint, and whatever they wrote to the
\* database is keyed like the pages this run writes or is absent
InitRun ==
    /\ store = EmptyTable
    /\ progress_file \in {NoProgressFile} \cup {ProgressFile(p) : p \in 0..MaxPage}
    /\ impl \in {"modular", "standalone"}
    /\ pages_per_browser \in
          (IF impl = "standalone" THEN {1, PagesPerBrowser} ELSE {PagesPerBrowser})
    /\ inject = TRUE
    /\ CrawlConfig
    /\ IdleLocals /\ DbIdle /\ ReplayIdle
    /\ runs = MaxRuns - 1 /\ extracted = <<>> /\ navigated = {}
    /\ last_page = None /\ faults = {} /\ outcome = "NONE"
    /\ everExtracted = {} /\ ckpt = NoCkpt /\ cause = "none" /\ log = <<>>
    /\ sessions = [opened |-> 0, closed |-> 0]

SpecRun == InitRun /\ [][NextRun]_vars /\ WF_vars(NextRun)

\* ------------------------------------------------------------------------
\* Record Store specification: save_items_to_db called twice with the same
\* batch on a bounded store
\* ------------------------------------------------------------------------
Batches == UNION { [1..n -> SampleItems] : n \in 0..MaxBatchLen }

\* stores left by earlier batches (rows created at time 0)
InitialStores ==
    { EmptyTable,
      InsertRow(EmptyTable, Item(1, "l1", "t1", "c1", "d1"), 0),
      InsertRow(EmptyTable, Item(2, "l2", "t2", "c2", "d2"), 0),
      InsertRow(InsertRow(EmptyTable, Item(1, "l2", "t2", "c2", "d2"), 0),
                Item(2, "l1", "t1", "c1", "d1"), 0) }

InitDb ==
    /\ store \in InitialStores
    /\ items_arg \in Batches
    /\ calls = 0 /\ prev_store = store /\ first_store = store
    /\ raised = <<>> /\ nav = NoNav /\ setrows = NoSetRows
    /\ extraction = NoExtraction /\ ToolsIdle
    /\ progress_file = NoProgressFile
    /\ impl = "modular" /\ start_page = 1 /\ end_page = 1
    /\ pages_per_checkpoint = 1 /\ pages_per_browser = PagesPerBrowser
    /\ numPages = 1 /\ listing = [p \in 1..1 |-> <<>>] /\ inject = TRUE
    /\ IdleLocals /\ FreshHistory /\ ReplayIdle

\* one call of save_items_to_db(items_arg); the call is made at time calls+1
\* raised records per call: "ok", "integrity" (the call raised on its own),
\* "fault" (the database failed)
DbSave ==
    /\ calls < 2
    /\ \E dbFault \in Faulty :
        LET r == save_items_to_db(store, items_arg, calls + 1, dbFault)
        IN /\ store' = r.tbl
           /\ raised' = Append(raised, IF ~r.raised THEN "ok"
                                       ELSE IF dbFault THEN "fault"
                                       ELSE "integrity")
           /\ first_store' = IF calls = 0 THEN r.tbl ELSE first_store
    /\ prev_store' = store
    /\ calls' = calls + 1
    /\ UNCHANGED <<progress_file, config, locals, history, items_arg, nav,
                   setrows, extraction, tools, replay>>

NextDb == DbSave

SpecDb == InitDb /\ [][NextDb]_vars

\* ------------------------------------------------------------------------
\* Restart replay specification: the standalone controller runs on a site
\* without failures, first with a browser restart after every page, then,
\* from the same files, with the restart limit of the source
\* ------------------------------------------------------------------------
InitRestart ==
    /\ store = EmptyTable
    /\ progress_file \in {NoProgressFile, ProgressFile(1), ProgressFile(2)}
    /\ impl = "standalone"
    /\ pages_per_browser = 1
    /\ inject = FALSE
    /\ CrawlConfig
    /\ pass = 1
    /\ ref = [NoRef EXCEPT !.progress = progress_file]
    /\ IdleLocals /\ FreshHistory /\ DbIdle

\* the first pass is over: remember its files, restore the initial files,
\* rerun without restarts
Replay ==
    /\ pass = 1 /\ pc = "idle" /\ runs >= 1
    /\ ref' = [store |-> store, progress |-> progress_file, runs |-> runs,
               opened |-> sessions.opened, extracted |-> extracted]
    /\ store' = EmptyTable
    /\ progress_file' = ref.progress
    /\ pages_per_browser' = PagesPerBrowser
    /\ pass' = 2
    /\ runs' = 0 /\ extracted' = <<>> /\ navigated' = {} /\ last_page' = None
    /\ faults' = {} /\ outcome' = "NONE" /\ everExtracted' = {}
    /\ cause' = "none" /\ log' = <<>>
    /\ ckpt' = NoCkpt /\ sessions' = [opened |-> 0, closed |-> 0]
    /\ UNCHANGED <<impl, start_page, end_page, pages_per_checkpoint, listing,
                   numPages, inject, locals, dbvars>>

NextRestart == StandaloneNext \/ Replay

SpecRestart == InitRestart /\ [][NextRestart]_vars

\* ------------------------------------------------------------------------
\* Controller comparison specification: on a site without injected failures
\* the standalone controller runs with the restart limit of the source (no
\* restart falls due), then the modular controller runs from the same files
\* ------------------------------------------------------------------------
InitEquiv ==
    /\ store = EmptyTable
    /\ progress_file \in {NoProgressFile, ProgressFile(1), ProgressFile(2)}
    /\ impl = "standalone"
    /\ pages_per_browser = PagesPerBrowser
    /\ inject = FALSE
    /\ CrawlConfig
    /\ pass = 1
    /\ ref = [NoRef EXCEPT !.progress = progress_file]
    /\ IdleLocals /\ FreshHistory /\ DbIdle

\* the standalone pass is over: remember its files, restore the initial
\* files, rerun with the modular controller
ReplayModular ==
    /\ pass = 1 /\ pc = "idle" /\ runs >= 1
    /\ ref' = [store |-> store, progress |-> progress_file, runs |-> runs,
               opened |-> sessions.opened, extracted |-> extracted]
    /\ store' = EmptyTable
    /\ progress_file' = ref.progress
    /\ impl' = "modular"
    /\ pass' = 2
    /\ runs' = 0 /\ extracted' = <<>> /\ navigated' = {} /\ last_page' = None
    /\ faults' = {} /\ outcome' = "NONE" /\ everExtracted' = {}
    /\ cause' = "none" /\ log' = <<>>
    /\ ckpt' = NoCkpt /\ sessions' = [opened |-> 0, closed |-> 0]
    /\ UNCHANGED <<start_page, end_page, pages_per_checkpoint,
                   pages_per_browser, listing, numPages, inject, locals,
                   dbvars>>

NextEquiv == StandaloneNext \/ ModularNext \/ ReplayModular

SpecEquiv == InitEquiv /\ [][NextEquiv]_vars

\* ------------------------------------------------------------------------
\* Detail scraper specification (agenda_details.py): process_all_items runs
\* up to MaxRuns times over the same filtered_items; a run can be killed
\* between its steps.  The crawl does not run here.
\* ------------------------------------------------------------------------
crawlvars == <<durable, config, locals, history, items_arg, calls, prev_store,
               first_store, raised, nav, setrows, extraction, replay>>

CrawlIdle ==
    /\ store = EmptyTable /\ progress_file = NoProgressFile
    /\ impl = "modular" /\ start_page = 1 /\ end_page = 1
    /\ pages_per_checkpoint = 1 /\ pages_per_browser = PagesPerBrowser
    /\ numPages = 1 /\ listing = [p \in 1..1 |-> <<>>] /\ inject = TRUE
    /\ IdleLocals /\ FreshHistory /\ ReplayIdle
    /\ items_arg = <<>> /\ calls = 0 /\ prev_store = EmptyTable
    /\ first_store = EmptyTable /\ raised = <<>> /\ nav = NoNav
    /\ setrows = NoSetRows /\ extraction = NoExtraction

\* AgendaDetailScraper.load_progress: the file's dictionary, or
\* {'processed_count': 0, 'last_index': -1} when there is no file
DetailsLoadProgress(file) ==
    IF file.exists
    THEN [last_index |-> file.last_index,
          processed_count |-> file.processed_count]
    ELSE [last_index |-> 0 - 1, processed_count |-> 0]

\* lines 62-63 of AgendaDetailScraper.save_progress: the dictionary is
\* updated in memory before the file is opened
DetailsProgressAfter(progress, index) ==
    [last_index |-> index, processed_count |-> progress.processed_count + 1]

\* lines 64-65: the write succeeds; open() raises and the file is untouched;
\* or json.dump raises after open(.., 'w') truncated the file
DetailsWrite(file, progress, w) ==
    CASE w = "ok"         -> [exists |-> TRUE, readable |-> TRUE,
                              last_index |-> progress.last_index,
                              processed_count |-> progress.processed_count]
      [] w = "open_fails" -> file
      [] w = "dump_fails" -> [exists |-> TRUE, readable |-> FALSE,
                              last_index |-> 0 - 1, processed_count |-> 0]

InitDetails ==
    /\ details \in { [NoDetails EXCEPT !.total = n] : n \in 0..MaxItems }
    /\ download = NoDownload /\ downloader = NoDownloader
    /\ CrawlIdle

\* AgendaDetailScraper() and the head of process_all_items (lines 177-187):
\* json.load raises in the constructor on a file it cannot read; no item
\* means return; otherwise the loop starts at last_index + 1
DetailsStart ==
    /\ details.pc = "idle" /\ details.runs < MaxRuns
    /\ details' =
          IF details.progress_file.exists /\ ~details.progress_file.readable
          THEN [details EXCEPT !.runs = @ + 1]
          ELSE LET progress == DetailsLoadProgress(details.progress_file)
               IN [details EXCEPT
                      !.runs = @ + 1,
                      !.progress = progress,
                      !.i = progress.last_index + 1,
                      !.pc = IF details.total = 0 THEN "idle" ELSE "loop"]
    /\ UNCHANGED <<crawlvars, download, downloader>>

\* lines 188-194, 196-201: extract_page_details returns details or None
\* (it catches its own exceptions); save_details commits or raises; only
\* after a commit is save_progress(i) reached
DetailsExtractAndSave ==
    /\ details.pc = "loop" /\ details.i < details.total
    /\ \E found \in BOOLEAN, save_raises \in BOOLEAN :
          details' =
              IF found /\ ~save_raises
              THEN [details EXCEPT !.saved = @ \cup {details.i},
                                   !.pc = "save_progress"]
              ELSE [details EXCEPT !.i = @ + 1]
    /\ UNCHANGED <<crawlvars, download, downloader>>

\* line 195: save_progress(i); an exception of the write is caught by
\* lines 198-201 and the loop goes on with the next item
DetailsSaveProgress ==
    /\ details.pc = "save_progress"
    /\ \E w \in WriteOutcomes :
          LET progress == DetailsProgressAfter(details.progress, details.i)
          IN details' =
                 [details EXCEPT
                     !.progress = progress,
                     !.progress_file =
                         DetailsWrite(details.progress_file, progress, w),
                     !.i = @ + 1,
                     !.pc = "loop"]
    /\ UNCHANGED <<crawlvars, download, downloader>>

\* range(start_index, total) is exhausted: the summary is logged
DetailsFinish ==
    /\ details.pc = "loop" /\ details.i >= details.total
    /\ details' = [details EXCEPT !.pc = "idle"]
    /\ UNCHANGED <<crawlvars, download, downloader>>

\* the process dies between two steps: memory is lost, the files stay
DetailsCrash ==
    /\ details.pc \in {"loop", "save_progress"}
    /\ details' = [details EXCEPT !.pc = "idle"]
    /\ UNCHANGED <<crawlvars, download, downloader>>

NextDetails ==
    \/ DetailsStart \/ DetailsExtractAndSave \/ DetailsSaveProgress
    \/ DetailsFinish \/ DetailsCrash

SpecDetails == InitDetails /\ [][NextDetails]_vars

\* ------------------------------------------------------------------------
\* download_file specification (file_downloader.py): one call with
\* retries = 0 under every sequence of outcomes of its download attempts
\* ------------------------------------------------------------------------
\* what one attempt (lines 111-132) can end in: the file is written;
\* requests.Timeout; another requests.RequestException; any other exception
AttemptOutcomes == {"ok", "timeout", "request_error", "error"}

\* the guard of line 107 letting one more attempt through
RetriesExhaustedLate(retries, max_retries) == retries > max_retries

\* line 107: if retries >= self.max_retries
RetriesExhausted(retries, max_retries) == retries >= max_retries

\* FileDownloader.download_file(url, dest_path, retries): outcomes[k] is what
\* the k-th attempt of the call ends in; the result and the number of
\* attempts made from this level of the recursion on
RECURSIVE download_file(_, _, _)
download_file(outcomes, retries, max_retries) ==
    IF RetriesExhausted(retries, max_retries)
    THEN [result |-> FALSE, attempts |-> 0]
    ELSE LET o == outcomes[retries + 1]
             again == download_file(outcomes, retries + 1, max_retries)
         IN CASE o = "ok" -> [result |-> TRUE, attempts |-> 1]
              [] o = "timeout" ->
                     [result |-> again.result, attempts |-> again.attempts + 1]
              [] o = "request_error" ->
                     IF retries < max_retries
                     THEN [result |-> again.result,
                           attempts |-> again.attempts + 1]
                     ELSE [result |-> FALSE, attempts |-> 1]
              [] OTHER -> [result |-> FALSE, attempts |-> 1]

InitDownload ==
    /\ download \in
           [called : {FALSE}, max_retries : 0..MaxRetries,
            outcomes : [1..(MaxRetries + 1) -> AttemptOutcomes],
            result : {FALSE}, attempts : {0}]
    /\ details = NoDetails /\ downloader = NoDownloader
    /\ CrawlIdle

DownloadFileCall ==
    /\ ~download.called
    /\ LET r == download_file(download.outcomes, 0, download.max_retries)
       IN download' = [download EXCEPT !.called = TRUE,
                           !.result = r.result, !.attempts = r.attempts]
    /\ UNCHANGED <<crawlvars, details, downloader>>

NextDownload == DownloadFileCall

SpecDownload == InitDownload /\ [][NextDownload]_vars

\* ------------------------------------------------------------------------
\* File downloader specification (file_downloader.py): download_all runs up
\* to MaxRuns times over the same items; a run can be interrupted
\* (KeyboardInterrupt) or killed between its steps, and every write of the
\* progress file can fail.  An item's code is its position in items.
\* ------------------------------------------------------------------------
Urls == {"a.pdf", "b.DOCX", "c.html"}

\* os.path.splitext(filename)[1]
Ext(url) ==
    CASE url = "a.pdf"  -> ".pdf"
      [] url = "b.DOCX" -> ".DOCX"
      [] OTHER          -> ".html"

\* str.lower() on the extensions of Urls
Lower(ext) == IF ext = ".DOCX" THEN ".docx" ELSE ext

ALLOWED_EXTENSIONS == {".pdf", ".docx", ".pptx"}

\* get_filename_from_url returns a filename (not None)
HasFilename(url) == Lower(Ext(url)) \in ALLOWED_EXTENSIONS

\* the links column of the items load_items_with_links returns: never empty
LinkLists ==
    { <<"a.pdf">>, <<"a.pdf", "b.DOCX">>, <<"b.DOCX", "c.html">>,
      <<"c.html", "a.pdf">> }

\* self.max_retries: config.get('max_retries', 3)
DefaultMaxRetries == 3

\* FileDownloader.load_progress (lines 33-48)
DownloaderLoadProgress(file) ==
    IF file.exists THEN file.content ELSE NoDownloadProgress

\* FileDownloader.save_progress: the write succeeds; open() raises and the
\* file is untouched; json.dump raises after open(.., 'w') truncated it
DownloaderWrite(file, progress, w) ==
    CASE w = "ok"         -> [exists |-> TRUE, readable |-> TRUE,
                              content |-> progress]
      [] w = "open_fails" -> file
      [] w = "dump_fails" -> [exists |-> TRUE, readable |-> FALSE,
                              content |-> NoDownloadProgress]

\* resuming two items after the item named by last_item_id
start_idxSkipping(items, last_item_id) ==
    IF Truthy(last_item_id) /\ last_item_id \in 1..Len(items)
    THEN last_item_id + 1 ELSE 0

\* lines 195-200: start_idx = i + 1 for the item whose code is
\* last_item_id (i counts from 0), else 0
start_idx(items, last_item_id) ==
    IF Truthy(last_item_id) /\ last_item_id \in 1..Len(items)
    THEN last_item_id ELSE 0

\* process_item that looks at no earlier download
AlreadyDownloadedNever(url, progress) == FALSE

\* line 156: if url in self.progress['downloaded_files']
AlreadyDownloaded(url, progress) == url \in progress.downloaded_files

\* the run is over: the object and its in-memory progress are gone
DownloaderEnded(d, o) ==
    [d EXCEPT !.pc = "idle", !.idx = 0, !.j = 0,
              !.progress = NoDownloadProgress, !.fetch = "", !.outcome = o,
              !.lost = @ \/ o \in {"FAILED", "CRASHED"}]

InitDownloader ==
    /\ downloader \in
          { [NoDownloader EXCEPT !.items = its, !.batch_size = b] :
                its \in UNION { [1..n -> LinkLists] : n \in 0..MaxLinkedItems },
                b \in {1, 2} }
    /\ details = NoDetails /\ download = NoDownload
    /\ CrawlIdle

\* FileDownloader() and the head of download_all (lines 15-31, 178-204):
\* json.load raises in the constructor on a file it cannot read; no item
\* means return; otherwise the loop starts after the item last_item_id names
DownloaderStart ==
    /\ downloader.pc = "idle" /\ downloader.runs < MaxRuns
    /\ downloader' =
          IF downloader.progress_file.exists
             /\ ~downloader.progress_file.readable
          THEN [downloader EXCEPT !.runs = @ + 1, !.outcome = "FAILED"]
          ELSE LET progress == DownloaderLoadProgress(downloader.progress_file)
               IN IF Len(downloader.items) = 0
                  THEN [downloader EXCEPT !.runs = @ + 1, !.outcome = "DONE"]
                  ELSE [downloader EXCEPT
                           !.runs = @ + 1, !.outcome = "RUNNING",
                           !.progress = progress,
                           !.idx = start_idx(downloader.items,
                                             progress.last_item_id) + 1,
                           !.pc = "items"]
    /\ UNCHANGED <<crawlvars, details, download>>

\* line 206: the next item of items[start_idx:], or the end of the loop
DownloaderNextItem ==
    /\ downloader.pc = "items"
    /\ downloader' =
          IF downloader.idx <= Len(downloader.items)
          THEN [downloader EXCEPT !.pc = "links", !.j = 1, !.fetch = ""]
          ELSE [downloader EXCEPT !.pc = "final", !.fetch = ""]
    /\ UNCHANGED <<crawlvars, details, download>>

\* one pass of 'for url in item['links']' (lines 155-176), or its end
DownloaderProcessLink ==
    /\ downloader.pc = "links"
    /\ LET links == downloader.items[downloader.idx]
           progress == downloader.progress
       IN IF downloader.j > Len(links)
          THEN downloader' = [downloader EXCEPT !.pc = "item_done",
                                                !.fetch = ""]
          ELSE LET url == links[downloader.j]
               IN IF AlreadyDownloaded(url, progress)
                  THEN downloader' = [downloader EXCEPT !.j = @ + 1,
                                                        !.fetch = ""]
                  ELSE IF ~HasFilename(url)
                  THEN downloader' =
                           [downloader EXCEPT
                               !.j = @ + 1, !.fetch = "",
                               !.progress.skipped_files = @ \cup {url}]
                  ELSE \E outcomes \in [1..DefaultMaxRetries -> AttemptOutcomes],
                          w \in WriteOutcomes :
                       LET ok == download_file(outcomes, 0,
                                               DefaultMaxRetries).result
                           after ==
                               IF ok
                               THEN [progress EXCEPT
                                        !.downloaded_files = @ \cup {url},
                                        !.total_downloaded = @ + 1]
                               ELSE [progress EXCEPT
                                        !.failed_downloads = @ \cup {url}]
                           due == after.total_downloaded
                                      % downloader.batch_size = 0
                           file == IF due
                                   THEN DownloaderWrite(
                                            downloader.progress_file, after, w)
                                   ELSE downloader.progress_file
                       IN downloader' =
                              IF due /\ w # "ok"
                              THEN [DownloaderEnded(downloader, "FAILED")
                                       EXCEPT !.progress_file = file,
                                              !.fetch = url,
                                              !.ever = after.downloaded_files
                                                           \cup @]
                              ELSE [downloader EXCEPT
                                       !.j = @ + 1, !.fetch = url,
                                       !.progress = after,
                                       !.progress_file = file,
                                       !.ever = after.downloaded_files
                                                    \cup @]
    /\ UNCHANGED <<crawlvars, details, download>>

\* lines 209-212: last_item_id = item['code'], then save_progress(); an
\* exception of the write is not a KeyboardInterrupt and ends the run
DownloaderItemDone ==
    /\ downloader.pc = "item_done"
    /\ \E w \in WriteOutcomes :
          LET after == [downloader.progress EXCEPT
                           !.last_item_id = downloader.idx]
              file == DownloaderWrite(downloader.progress_file, after, w)
          IN downloader' =
                 IF w = "ok"
                 THEN [downloader EXCEPT
                          !.progress = after, !.progress_file = file,
                          !.idx = @ + 1, !.pc = "items", !.fetch = ""]
                 ELSE [DownloaderEnded(downloader, "FAILED")
                          EXCEPT !.progress_file = file]
    /\ UNCHANGED <<crawlvars, details, download>>

\* lines 214-220: the final save_progress() and the summary
DownloaderFinal ==
    /\ downloader.pc = "final"
    /\ \E w \in WriteOutcomes :
          downloader' =
              [DownloaderEnded(downloader,
                               IF w = "ok" THEN "DONE" ELSE "FAILED")
                  EXCEPT !.progress_file =
                      DownloaderWrite(downloader.progress_file,
                                      downloader.progress, w)]
    /\ UNCHANGED <<crawlvars, details, download>>

\* lines 222-226: KeyboardInterrupt inside the try block; the handler saves
\* the progress held in memory and returns
DownloaderInterrupt ==
    /\ downloader.pc \in {"items", "links", "item_done", "final"}
    /\ \E w \in WriteOutcomes :
          downloader' =
              [DownloaderEnded(downloader,
                               IF w = "ok" THEN "INTERRUPTED" ELSE "FAILED")
                  EXCEPT !.progress_file =
                      DownloaderWrite(downloader.progress_file,
                                      downloader.progress, w)]
    /\ UNCHANGED <<crawlvars, details, download>>

\* the process dies between two steps: memory is lost, the files stay
DownloaderCrash ==
    /\ downloader.pc # "idle"
    /\ downloader' = DownloaderEnded(downloader, "CRASHED")
    /\ UNCHANGED <<crawlvars, details, download>>

NextDownloader ==
    \/ DownloaderStart \/ DownloaderNextItem \/ DownloaderProcessLink
    \/ DownloaderItemDone \/ DownloaderFinal \/ DownloaderInterrupt
    \/ DownloaderCrash

SpecDownloader == InitDownloader /\ [][NextDownloader]_vars

\* ------------------------------------------------------------------------
\* Checkpoint Store specification: save_progress called up to MaxSaves times
\* on a progress file that does not exist at first; log records the calls
\* ------------------------------------------------------------------------
InitProgress ==
    /\ progress_file = NoProgressFile
    /\ store = EmptyTable
    /\ impl = "modular" /\ start_page = 1 /\ end_page = 1
    /\ pages_per_checkpoint = 1 /\ pages_per_browser = PagesPerBrowser
    /\ numPages = 1 /\ listing = [p \in 1..1 |-> <<>>] /\ inject = TRUE
    /\ IdleLocals /\ FreshHistory /\ DbIdle /\ ReplayIdle

ProgressSave ==
    /\ Len(log) < MaxSaves
    /\ \E page \in 0..MaxPage, w \in WriteOutcomes :
        /\ progress_file' = save_progress(progress_file, page, w)
        /\ log' = Append(log, SaveCall(page, w, "caller"))
    /\ UNCHANGED <<store, config, locals, runs, extracted, navigated,
                   last_page, faults, outcome, cause, everExtracted, ckpt,
                   sessions, dbvars, replay>>

NextProgress == ProgressSave

SpecProgress == InitProgress /\ [][NextProgress]_vars

\* ------------------------------------------------------------------------
\* Navigation specification: one go_to_page call for each page number, each
\* state of the pagination link, of the browser and of the page indicator
\* ------------------------------------------------------------------------
NavInputs ==
    [called : {FALSE}, page_number : 1..(MaxPage + 1), present : BOOLEAN,
     raises : BOOLEAN, indicator : {None} \cup (1..MaxPage),
     shown : 1..MaxPage, result : {FALSE}]

InitNav ==
    /\ nav \in NavInputs
    /\ items_arg = <<>> /\ calls = 0 /\ prev_store = EmptyTable
    /\ first_store = EmptyTable /\ raised = <<>> /\ setrows = NoSetRows
    /\ extraction = NoExtraction /\ ToolsIdle
    /\ progress_file = NoProgressFile
    /\ store = EmptyTable
    /\ impl = "modular" /\ start_page = 1 /\ end_page = 1
    /\ pages_per_checkpoint = 1 /\ pages_per_browser = PagesPerBrowser
    /\ numPages = 1 /\ listing = [p \in 1..1 |-> <<>>] /\ inject = TRUE
    /\ IdleLocals /\ FreshHistory /\ ReplayIdle

NavCall ==
    /\ ~nav.called
    /\ nav' = [nav EXCEPT
                 !.called = TRUE,
                 !.result = go_to_page(nav.page_number, nav.present,
                                       nav.raises, nav.indicator),
                 !.shown = ShownAfter(nav.shown, nav.page_number,
                                      nav.present, nav.raises,
                                      nav.indicator)]
    /\ UNCHANGED <<durable, config, locals, history, items_arg, calls,
                   prev_store, first_store, raised, setrows, extraction,
                   tools, replay>>

NextNav == NavCall

SpecNav == InitNav /\ [][NextNav]_vars

\* ------------------------------------------------------------------------
\* Page-size specification: the modular controller has launched its browser
\* and calls set_rows_per_page once, for every row count before the change,
\* every row count seen at the three attempts, every outcome of the two
\* readiness waits and every place of an exception
\* ------------------------------------------------------------------------
WaitOutcomes == {"ok", "timeout", "error"}

SetRowsInputs ==
    [called : {FALSE}, initial_rows : 0..MaxRows, is_selected : BOOLEAN,
     first : WaitOutcomes, second : WaitOutcomes,
     seen : [1..max_attempts -> 0..MaxRows],
     raises_at : {None} \cup (0..max_attempts),
     result : {FALSE}, attempts : {0}, waits : {0}, raised : {FALSE}]

InitSetRows ==
    /\ setrows \in SetRowsInputs
    /\ items_arg = <<>> /\ calls = 0 /\ prev_store = EmptyTable
    /\ first_store = EmptyTable /\ raised = <<>> /\ nav = NoNav
    /\ extraction = NoExtraction /\ ToolsIdle
    /\ store = EmptyTable /\ progress_file = NoProgressFile
    /\ impl = "modular" /\ start_page = 1 /\ end_page = 1
    /\ pages_per_checkpoint = 1 /\ pages_per_browser = PagesPerBrowser
    /\ numPages = 1 /\ listing = [p \in 1..1 |-> <<PageItem(1)>>]
    /\ inject = FALSE
    /\ pc = "rows" /\ current_page = 1 /\ current_batch = <<>>
    /\ browser = "open" /\ pages_since_restart = 0 /\ shown = 1
    /\ runs = 1 /\ extracted = <<>> /\ navigated = {} /\ last_page = None
    /\ faults = {} /\ outcome = "RUNNING" /\ everExtracted = {}
    /\ ckpt = NoCkpt /\ cause = "none" /\ log = <<>>
    /\ sessions = [opened |-> 1, closed |-> 0]
    /\ ReplayIdle

\* scraper.py lines 74-78 with the call of set_rows_per_page carried out
SetRowsPerPageCall ==
    /\ impl = "modular" /\ pc = "rows" /\ ~setrows.called
    /\ LET r == set_rows_per_page(setrows.initial_rows, setrows.is_selected,
                                  setrows.first, setrows.second,
                                  setrows.seen, setrows.raises_at)
           rows_set == r.result
       IN /\ setrows' = [setrows EXCEPT !.called = TRUE,
                             !.result = r.result, !.attempts = r.attempts,
                             !.waits = r.waits, !.raised = r.raised]
          /\ pc' = IF rows_set THEN "goto_start" ELSE "finally"
          /\ outcome' = IF rows_set THEN outcome ELSE "FAILED"
          /\ cause' = IF rows_set THEN cause ELSE "rows"
          /\ faults' = faults \cup (IF rows_set THEN {} ELSE {"fault"})
    /\ UNCHANGED <<durable, config, current_page, current_batch, browser,
                   pages_since_restart, shown, runs, extracted, navigated,
                   last_page, log, everExtracted, ckpt, sessions, items_arg,
                   calls, prev_store, first_store, raised, nav, extraction,
                   tools, replay>>

NextSetRows ==
    \/ SetRowsPerPageCall \/ GoToStartPage \/ LoopTest \/ ExtractPage
    \/ CheckpointDb \/ CheckpointProgress \/ Advance \/ Finally

SpecSetRows == InitSetRows /\ [][NextSetRows]_vars

\* ------------------------------------------------------------------------
\* Extraction specification: the modular controller is on page 1 of a run
\* over page 1 and calls extract_page_results on a table of up to MaxDataRows
\* rows; a row has a link or not, a cell text of up to MaxText characters, an
\* href or not, and raises or not
\* ------------------------------------------------------------------------
Texts == UNION { [1..n -> {" ", "\n", "A"}] : n \in 0..MaxText }

DataRow(n, text, href, raises) ==
    [link_count |-> n, text |-> text, href |-> href, raises |-> raises]

DataRows ==
    { DataRow(1, text, TRUE, FALSE) : text \in Texts }
    \cup { DataRow(0, <<"A">>, TRUE, FALSE), DataRow(1, <<"A">>, FALSE, FALSE),
           DataRow(1, <<"A">>, TRUE, TRUE) }

InitExtract ==
    /\ extraction \in
           [called : {FALSE},
            data_rows : UNION { [1..n -> DataRows] : n \in 0..MaxDataRows },
            locator_raises : BOOLEAN, items : {<<>>}, raised : {FALSE}]
    /\ items_arg = <<>> /\ calls = 0 /\ prev_store = EmptyTable
    /\ first_store = EmptyTable /\ raised = <<>> /\ nav = NoNav
    /\ setrows = NoSetRows /\ ToolsIdle
    /\ store = EmptyTable /\ progress_file = NoProgressFile
    /\ impl = "modular" /\ start_page = 1 /\ end_page = 1
    /\ pages_per_checkpoint = 1 /\ pages_per_browser = PagesPerBrowser
    /\ numPages = 1 /\ listing = [p \in 1..1 |-> <<>>]
    /\ inject = FALSE
    /\ pc = "extract" /\ current_page = 1 /\ current_batch = <<>>
    /\ browser = "open" /\ pages_since_restart = 0 /\ shown = 1
    /\ runs = 1 /\ extracted = <<>> /\ navigated = {} /\ last_page = None
    /\ faults = {} /\ outcome = "RUNNING" /\ everExtracted = {}
    /\ ckpt = NoCkpt /\ cause = "none" /\ log = <<>>
    /\ sessions = [opened |-> 1, closed |-> 0]
    /\ ReplayIdle

\* scraper.py lines 88-90 with the call of extract_page_results carried out
ExtractPageCall ==
    /\ impl = "modular" /\ pc = "extract" /\ ~extraction.called
    /\ LET r == extract_page_results(extraction.data_rows,
                                     extraction.locator_raises)
       IN /\ extraction' = [extraction EXCEPT !.called = TRUE,
                                !.items = r.items, !.raised = r.raised]
          /\ current_batch' =
                 IF r.raised THEN current_batch ELSE current_batch \o r.items
          /\ pc' = IF r.raised THEN "except" ELSE "checkpoint"
          /\ faults' = faults \cup (IF r.raised THEN {"fault"} ELSE {})
    /\ extracted' = Append(extracted, shown)
    /\ everExtracted' = everExtracted \cup {shown}
    /\ UNCHANGED <<durable, config, current_page, browser,
                   pages_since_restart, shown, runs, navigated, last_page,
                   log, outcome, cause, ckpt, sessions, items_arg, calls,
                   prev_store, first_store, raised, nav, setrows, tools,
                   replay>>

NextExtract ==
    \/ ExtractPageCall \/ CheckpointDb \/ CheckpointProgress
    \/ CheckpointFallback \/ Advance \/ FinalDb \/ Except \/ Finally

SpecExtract == InitExtract /\ [][NextExtract]_vars

\* ------------------------------------------------------------------------
\* Properties
\* ------------------------------------------------------------------------
\* every record page q shows is in the Record Store
PageStored(q) ==
    \A i \in 1..Len(listing[q]) : listing[q][i].item_number \in DOMAIN store

\* a run has ended (normally, by failure or by crash)
RunOver == pc = "idle" /\ outcome # "NONE"

\* C1: whenever the progress file holds p, the records of every extracted page
\* of the range up to p are in the Record Store
C1_CheckpointNeverPastUnflushedPage ==
    \A q \in everExtracted :
        (q >= start_page /\ q <= load_progress(progress_file))
            => PageStored(q)

\* C2: no save_progress call writes a page lower than the page the progress
\* file already holds
C2_CheckpointNonDecreasing ==
    [][ (load_progress(progress_file) # None
            /\ load_progress(progress_file') # None)
        => load_progress(progress_file') >= load_progress(progress_file) ]_vars

\* C3: a run that loaded a checkpoint p >= start_page calls go_to_page only
\* for pages above p, extracts only pages above p, and the first page it
\* extracts is p + 1
C3_ResumeStartsAfterCheckpoint ==
    (last_page # None /\ last_page >= start_page) =>
        /\ \A q \in navigated : q > last_page
        /\ \A i \in 1..Len(extracted) : extracted[i] > last_page
        /\ extracted # <<>> => extracted[1] = last_page + 1

C3_Witness ==
    /\ last_page # None /\ last_page >= start_page
    /\ Len(extracted) >= 2 /\ navigated # {}

\* C4: the batch is cleared at a checkpoint only after both writes succeeded;
\* after a failed write the run aborts and the progress file holds what it
\* held before the checkpoint attempt
C4_ClearOnlyAfterBothWrites ==
    /\ ckpt.cleared => (~ckpt.db_raised /\ ~ckpt.prog_failed)
    /\ (ckpt.active /\ (ckpt.db_raised \/ ckpt.prog_failed)) =>
          /\ load_progress(progress_file) <= load_progress(ckpt.prev)
          /\ pc \in {"ckpt_fallback", "final_fallback", "except", "finally",
                     "s_except", "s_finally", "idle"}
          /\ outcome \in {"RUNNING", "FAILED", "CRASHED", "INTERRUPTED"}

\* C5: a run without failures over the single page k, started without a
\* checkpoint at or above k, extracts page k once and ends DONE with the
\* progress file holding k
C5_SinglePageRun ==
    (RunOver /\ start_page = end_page /\ faults = {}
        /\ last_page < start_page) =>
        /\ extracted = <<start_page>>
        /\ outcome = "DONE"
        /\ load_progress(progress_file) = start_page

\* C6: when the only failure of a run is that the link of page k+1 is absent
\* while advancing from page k, the run ends DONE with the extracted pages
\* stored and the progress file holding k
C6_AbsentNextPageEndsDone ==
    (RunOver /\ faults = {"absent"} /\ extracted # <<>>) =>
        /\ outcome = "DONE"
        /\ \A i \in 1..Len(extracted) : PageStored(extracted[i])
        /\ load_progress(progress_file) = extracted[Len(extracted)]

\* the record fields of a row, and of every row of a table
Fields(row) == [link |-> row.link, title |-> row.title,
                committee |-> row.committee, date |-> row.date]

Records(tbl) == [k \in DOMAIN tbl |-> Fields(tbl[k])]

\* C7: with the same site and the same files at the start, the run with a
\* restart after every page ends with the same Record Store rows (created_at
\* aside, it is not a record field) and the same progress file as the run
\* without restarts
C7_RestartTransparent ==
    (pass = 2 /\ RunOver /\ runs = ref.runs) =>
        /\ Records(store) = Records(ref.store)
        /\ progress_file = ref.progress

C7_Witness ==
    /\ pass = 2 /\ RunOver /\ runs = ref.runs
    /\ ref.opened >= 3 /\ sessions.opened = 1
    /\ Cardinality(DOMAIN store) >= 2
    /\ load_progress(progress_file) >= 3

\* C8: a second save_items_to_db of the same batch leaves the table as the
\* first call left it: same keys, same rows
C8_UpsertIdempotent ==
    (calls = 2 /\ raised[1] # "fault" /\ raised[2] # "fault") =>
        store = first_store

C8_Witness ==
    /\ calls = 2 /\ raised = <<"ok", "ok">>
    /\ store # prev_store \/ Len(items_arg) >= 2
    /\ \E i \in 1..Len(items_arg) : items_arg[i].item_number \in DOMAIN store

\* the last record of the batch with item number k
LastWithKey(items, k) ==
    items[CHOOSE i \in 1..Len(items) :
            /\ items[i].item_number = k
            /\ \A j \in (i+1)..Len(items) : items[j].item_number # k]

BatchKeys(items) == { items[i].item_number : i \in 1..Len(items) }

\* C9: after save_items_to_db either every record of the batch is written
\* (a new key inserted, the fields of an existing key overwritten, other rows
\* untouched) or the call raised and the table is as before the call
C9_UpsertAllOrNothing ==
    calls >= 1 =>
        IF raised[calls] # "ok" THEN store = prev_store
        ELSE /\ DOMAIN store = DOMAIN prev_store \cup BatchKeys(items_arg)
             /\ \A k \in BatchKeys(items_arg) :
                    /\ Fields(store[k]) =
                         [link |-> LastWithKey(items_arg, k).link,
                          title |-> LastWithKey(items_arg, k).title,
                          committee |-> LastWithKey(items_arg, k).committee,
                          date |-> LastWithKey(items_arg, k).date]
             /\ \A k \in DOMAIN prev_store \ BatchKeys(items_arg) :
                    store[k] = prev_store[k]

C9_Witness ==
    /\ calls = 1 /\ raised = <<"integrity">>
    /\ Len(items_arg) = 3
    /\ items_arg[1].item_number \notin DOMAIN prev_store
    /\ items_arg[2].item_number \in DOMAIN prev_store
    /\ store = prev_store

\* C10: unless the database itself fails, save_items_to_db succeeds and the
\* table then holds a row for every key of the batch, also when the batch
\* repeats a key
C10_OneRowPerKeyAlways ==
    (calls >= 1 /\ raised[calls] # "fault") =>
        /\ raised[calls] = "ok"
        /\ BatchKeys(items_arg) \subseteq DOMAIN store

\* pages of the save_progress calls of the run that reached the file
DurablePages == LET done == SelectSeq(log, LAMBDA e : e.ok)
                IN [i \in 1..Len(done) |-> done[i].page]

\* a sequence without the entries that repeat the entry before them
Distinct(seq) ==
    LET keep == {i \in 1..Len(seq) : i = 1 \/ seq[i] # seq[i - 1]}
        nth[i \in 0..Len(seq)] ==
            IF i = 0 THEN <<>>
            ELSE IF i \in keep THEN Append(nth[i - 1], seq[i]) ELSE nth[i - 1]
    IN nth[Len(seq)]

\* the multiples of c in a..b in increasing order, then b
CheckpointPlan(a, b, c) ==
    LET plan[p \in (a - 1)..b] ==
            IF p < a THEN <<>>
            ELSE IF p % c = 0 \/ p = b THEN Append(plan[p - 1], p)
            ELSE plan[p - 1]
    IN plan[b]

\* keys of the records that pages a..b show
KeysOfPages(a, b) ==
    UNION { {listing[q][i].item_number : i \in 1..Len(listing[q])} :
            q \in (a..b) \cap DOMAIN listing }

\* the run began at start_page and met no failure
CleanRun == RunOver /\ faults = {} /\ last_page < start_page

\* C11: a run without failures over start_page..end_page writes to the
\* progress file the multiples of pages_per_checkpoint of the range in
\* increasing order and then end_page, and ends DONE with the Record Store
\* holding exactly the keys of the records of the range
C11_CheckpointSequenceAndStore ==
    CleanRun =>
        /\ outcome = "DONE"
        /\ Distinct(DurablePages) =
               CheckpointPlan(start_page, end_page, pages_per_checkpoint)
        /\ DOMAIN store = KeysOfPages(start_page, end_page)

\* C12: within a run the page extracted after page n is page n + 1, so the
\* pages are extracted in increasing order, none twice and none skipped
C12_ExtractionStepOne ==
    \A i \in 1..(Len(extracted) - 1) : extracted[i + 1] = extracted[i] + 1

\* a standalone run extracted three pages in a row across a browser restart
C12_Witness ==
    /\ impl = "standalone" /\ pages_per_browser = 1
    /\ Len(extracted) >= 3 /\ sessions.opened >= 3
    /\ C12_ExtractionStepOne

\* C13: when a run ends other than by the death of the process, every
\* browser it opened has been closed, and at no time has close been called
\* more often than browsers were opened
C13_SessionsClosedOnce ==
    /\ sessions.closed <= sessions.opened
    /\ (RunOver /\ outcome # "CRASHED") => sessions.closed = sessions.opened

\* the run made a save_progress call in its exception handler
SaveAttempted == \E i \in 1..Len(log) : log[i].by = "handler"

\* C14: a run that has ended FAILED called save_progress on its way out
C14_FatalExitAttemptsSave ==
    (RunOver /\ outcome = "FAILED") => SaveAttempted

\* C15: a run ended by KeyboardInterrupt called save_progress in its cleanup
\* (the except clause is the only cleanup code that saves)
C15_InterruptAttemptsSave ==
    (RunOver /\ cause = "interrupt") =>
        (log # <<>> /\ log[Len(log)].by = "handler")

\* C16: load_progress returns None while save_progress was never called, and
\* after a sequence of calls the page of the latest call, when the write of
\* that call reached the file
C16_ProgressRoundTrip ==
    /\ log = <<>> => load_progress(progress_file) = None
    /\ (log # <<>> /\ log[Len(log)].ok) =>
           load_progress(progress_file) = log[Len(log)].page

\* three saves of different pages, the file holds the third
C16_Witness ==
    /\ Len(log) = 3 /\ log[1].ok /\ log[2].ok /\ log[3].ok
    /\ log[1].page = 2 /\ log[2].page = 3 /\ log[3].page = 1
    /\ load_progress(progress_file) = 1

\* C17: go_to_page returns a boolean; it returns TRUE only when the link of
\* page n exists, no browser action failed and the active-page indicator
\* names page n, which is then the page displayed; otherwise it returns FALSE
C17_GoToPageConfirmsArrival ==
    nav.called =>
        /\ nav.result \in BOOLEAN
        /\ nav.result =>
              /\ nav.present /\ ~nav.raises
              /\ nav.indicator = nav.page_number
              /\ nav.shown = nav.page_number
        /\ (~nav.present \/ nav.raises \/ nav.indicator = None
              \/ nav.indicator # nav.page_number) => ~nav.result

\* a click that worked while the indicator names another page: FALSE
C17_Witness ==
    /\ nav.called /\ nav.present /\ ~nav.raises
    /\ nav.page_number = 3 /\ nav.indicator = 2 /\ nav.result = FALSE

\* C18: a run starts at the page after the checkpoint when the progress file
\* holds a page at or above start_page, and at start_page when there is no
\* readable progress file or it holds a page below start_page
C18_StartPageResolution ==
    [][(pc = "idle" /\ pc' # "idle") =>
          current_page' =
              IF load_progress(progress_file) # None
                 /\ load_progress(progress_file) >= start_page
              THEN load_progress(progress_file) + 1
              ELSE start_page]_vars

\* a run that resumed from a checkpoint equal to start_page
C18_Witness ==
    /\ pc \in {"browser", "s_loop"} /\ extracted = <<>>
    /\ start_page = 2 /\ load_progress(progress_file) = 2
    /\ current_page = 3

\* C19: a run that ended because go_to_page(current_page) returned False
\* (after the first launch or after a restart) ended FAILED, with the records
\* of every page it extracted in the Record Store and with a save_progress
\* call for the last page it extracted
C19_NavFailureFlushesBatch ==
    (RunOver /\ cause = "nav") =>
        /\ outcome = "FAILED"
        /\ \A i \in 1..Len(extracted) : PageStored(extracted[i])
        /\ extracted # <<>> =>
              (log # <<>> /\ log[Len(log)].page = extracted[Len(extracted)])

\* C20: when save_progress is called with current_page at a periodic
\* checkpoint or after the loop (lines 97-98, 101-103, 123, 126-128), every
\* record of the batch is already in the Record Store
C20_RecordsBeforeCheckpoint ==
    [][(Len(log') = Len(log) + 1
          /\ log'[Len(log')].by \in {"checkpoint", "final", "fallback"}
          /\ log'[Len(log')].page = current_page) =>
            \A i \in 1..Len(current_batch) :
                current_batch[i].item_number \in DOMAIN store]_vars

\* C21: while a run is under way the progress file holds at most
\* current_page, and every page the run passed to save_progress is at most
\* current_page
C21_CheckpointAtMostCurrentPage ==
    pc # "idle" =>
        /\ load_progress(progress_file) <= current_page
        /\ \A i \in 1..Len(log) : log[i].page <= current_page

\* the final batch write raised on page 3 and the run saved checkpoint 2
C21_Witness ==
    /\ pc = "except" /\ current_page = 3
    /\ log # <<>> /\ log[Len(log)] = SaveCall(2, "ok", "fallback")
    /\ load_progress(progress_file) = 2

\* C22: at every step of a run the batch holds the records of at most
\* pages_per_checkpoint pages (a page shows at most one record here), and
\* every extracted page whose records are not in the Record Store lies above
\* the page in the progress file, so that a resumed run extracts it again
C22_UnflushedPagesAreReextracted ==
    pc # "idle" =>
        /\ Len(current_batch) <= pages_per_checkpoint
        /\ \A i \in 1..Len(extracted) :
               ~PageStored(extracted[i]) =>
                   extracted[i] > load_progress(progress_file)

\* C23: the standalone controller restarts the browser at the loop test
\* exactly when there is no browser or pages_since_restart has reached
\* pages_per_browser; a restart sets pages_since_restart to 0, and the
\* counter never exceeds pages_per_browser
C23_RestartAtPageLimit ==
    [][/\ (pc = "s_loop" /\ pc' = "s_restart") =>
              (browser = "none" \/ pages_since_restart >= pages_per_browser)
       /\ (pc = "s_loop" /\ pc' = "s_extract") =>
              (browser = "open" /\ pages_since_restart < pages_per_browser)
       /\ (pc = "s_restart" /\ pc' \in {"s_rows", "s_except"}
             /\ browser' = "open") => pages_since_restart' = 0
       /\ pages_since_restart' <= pages_per_browser]_vars

\* the second browser of a run with pages_per_browser = 1 has been set up
C23_Witness ==
    /\ impl = "standalone" /\ pages_per_browser = 1 /\ pc = "s_rows"
    /\ sessions = [opened |-> 2, closed |-> 1]
    /\ extracted = <<1>> /\ current_page = 2 /\ pages_since_restart = 0

\* C24: a restart of the standalone controller closes the open browser,
\* opens a new one, which displays page 1, and keeps current_page; every
\* extraction, the one that follows a restart included, reads current_page
C24_RestartReplaysCurrentPage ==
    [][/\ (pc = "s_restart" /\ pc' = "s_rows") =>
              /\ sessions'.opened = sessions.opened + 1
              /\ sessions'.closed =
                     sessions.closed + (IF browser = "open" THEN 1 ELSE 0)
              /\ shown' = 1 /\ current_page' = current_page
       /\ (impl = "standalone" /\ Len(extracted') = Len(extracted) + 1) =>
              /\ browser = "open"
              /\ extracted'[Len(extracted')] = current_page]_vars

\* page 2 was extracted by the second browser of the run
C24_Witness ==
    /\ impl = "standalone" /\ pages_per_browser = 1
    /\ pc = "s_checkpoint" /\ current_page = 2 /\ extracted = <<1, 2>>
    /\ sessions = [opened |-> 2, closed |-> 1] /\ pages_since_restart = 0

\* C25: at every moment of a run at most one of the browsers it opened has
\* not been closed
C25_AtMostOneSessionOpen ==
    sessions.opened - sessions.closed <= 1

\* the second browser of a run is open and the first one is closed
C25_Witness ==
    /\ impl = "standalone" /\ pc = "s_extract" /\ browser = "open"
    /\ sessions = [opened |-> 2, closed |-> 1]

\* C26: set_rows_per_page looks at the row count at most max_attempts = 3
\* times and returns TRUE only when an attempt saw more rows than before the
\* change; when no attempt does, it returns FALSE and the run ends FAILED
\* with no page extracted and no write to the Record Store
C26_RowsVerifiedWithinThreeAttempts ==
    setrows.called =>
        /\ setrows.attempts <= 3
        /\ setrows.result =>
              /\ setrows.attempts >= 1
              /\ setrows.seen[setrows.attempts] > setrows.initial_rows
        /\ (\A k \in 1..3 : setrows.seen[k] <= setrows.initial_rows) =>
              /\ ~setrows.result
              /\ pc \in {"finally", "idle"} /\ outcome = "FAILED"
              /\ extracted = <<>> /\ ~ckpt.active /\ store = EmptyTable

\* three attempts that saw the row count unchanged, and the run has ended
C26_Witness ==
    /\ setrows.called /\ setrows.raises_at = None /\ setrows.is_selected
    /\ setrows.initial_rows = 1 /\ setrows.seen = <<1, 1, 1>>
    /\ setrows.attempts = 3 /\ ~setrows.result
    /\ pc = "idle" /\ outcome = "FAILED" /\ store = EmptyTable

\* C27: extract_page_results never raises; when it returns no record (the
\* table has no usable row, or reading the table failed) the run goes on to
\* the checkpoint test and the advance, and ends DONE
C27_EmptyExtractionIsNotAnError ==
    extraction.called =>
        /\ ~extraction.raised
        /\ extraction.items = <<>> =>
              /\ pc \in {"checkpoint", "ckpt_progress", "advance", "final",
                          "finally", "idle"}
              /\ outcome \in {"RUNNING", "DONE"}
              /\ pc = "idle" =>
                    (outcome = "DONE" /\ load_progress(progress_file) = 1)

\* reading the table failed, and the run has ended DONE with checkpoint 1
C27_Witness ==
    /\ extraction.called /\ extraction.locator_raises
    /\ extraction.data_rows # <<>> /\ extraction.items = <<>>
    /\ pc = "idle" /\ outcome = "DONE" /\ extracted = <<1>>
    /\ load_progress(progress_file) = 1

\* C28: every record that extract_page_results returns, and every row of the
\* Record Store, has an item number that is not empty and holds no
\* whitespace at its ends
C28_NoEmptyKeyStored ==
    /\ \A i \in 1..Len(extraction.items) :
           /\ extraction.items[i].item_number # <<>>
           /\ Strip(extraction.items[i].item_number) =
                  extraction.items[i].item_number
    /\ \A k \in DOMAIN store : k # <<>>

\* a table with a blank row and a row numbered A: only A is stored
C28_Witness ==
    /\ extraction.called /\ Len(extraction.data_rows) = 2
    /\ extraction.data_rows[1] = DataRow(1, <<" ", "\n">>, TRUE, FALSE)
    /\ extraction.data_rows[2] = DataRow(1, <<"A", "\n">>, TRUE, FALSE)
    /\ DOMAIN store = {<<"A">>} /\ pc = "idle"

\* C29: wait_for_table_update makes one wait, and a second one only when
\* the first timed out; it returns after at most two waits and never raises
C29_ReadinessWaitBounded ==
    (setrows.called /\ setrows.raises_at # 0 /\ setrows.is_selected) =>
        /\ setrows.waits \in {1, 2}
        /\ setrows.waits = 2 <=> setrows.first = "timeout"
        /\ ~setrows.raised

\* both waits timed out and the call returned
C29_Witness ==
    /\ setrows.called /\ setrows.raises_at = None /\ setrows.is_selected
    /\ setrows.first = "timeout" /\ setrows.second = "timeout"
    /\ setrows.waits = 2 /\ ~setrows.raised

\* C30: a run extracts at most end_page - start_page + 1 pages, and every
\* run that is not killed ends DONE or FAILED
C30_RunTerminates ==
    /\ [](Len(extracted) <= end_page - start_page + 1)
    /\ (outcome = "RUNNING") ~>
           (pc = "idle" /\ outcome \in {"DONE", "FAILED"})

\* a run over three pages has extracted all three and ended DONE
C30_Witness ==
    /\ pc = "idle" /\ outcome = "DONE" /\ start_page = 1 /\ end_page = 3
    /\ extracted = <<1, 2, 3>>

\* C31: a run that loaded a checkpoint at or above end_page extracts no page,
\* calls go_to_page for no page, and leaves the Record Store and the page in
\* the progress file as they were
C31_CheckpointAtEndIsNoOp ==
    [][(pc # "idle" /\ last_page # None /\ last_page >= end_page) =>
          /\ extracted' = extracted
          /\ navigated' = navigated
          /\ store' = store
          /\ load_progress(progress_file') = load_progress(progress_file)]_vars

\* C32: from the same configuration, progress file and listing, with no
\* browser restart due, the modular controller ends with the same Record
\* Store records and the same page in the progress file as the standalone
\* controller, also when the link of the next page is missing and when the
\* last pages show no record
C32_ControllersAgree ==
    (pass = 2 /\ RunOver /\ runs = ref.runs) =>
        /\ Records(store) = Records(ref.store)
        /\ load_progress(progress_file) = load_progress(ref.progress)

\* C33: every item with an index up to the last_index stored in the detail
\* scraper's progress file has its details in agenda_details.db (an item
\* whose processing failed is not passed over)
C33_ProcessedItemsAreSaved ==
    (details.progress_file.exists /\ details.progress_file.readable) =>
        \A j \in 0..details.progress_file.last_index : j \in details.saved

\* C34: download_file makes at most max_retries download attempts; when
\* every attempt ends in a timeout or a request error it makes exactly
\* max_retries attempts and returns False; it returns True only when its
\* last attempt wrote the file
C34_DownloadAttemptsBounded ==
    download.called =>
        /\ download.attempts <= download.max_retries
        /\ (\A k \in 1..download.max_retries :
                download.outcomes[k] \in {"timeout", "request_error"}) =>
              (download.attempts = download.max_retries /\ ~download.result)
        /\ download.result =>
              (download.attempts >= 1
               /\ download.outcomes[download.attempts] = "ok")

\* three attempts, a timeout and two request errors, then False
C34_Witness ==
    /\ download.called /\ download.max_retries = 3
    /\ download.outcomes[1] = "timeout"
    /\ download.outcomes[2] = "request_error"
    /\ download.outcomes[3] = "request_error"
    /\ download.attempts = 3 /\ ~download.result

\* C35: whenever a step passes a URL to download_file, the URL is neither in
\* downloaded_files of the running downloader nor in downloaded_files of
\* the progress file, whichever item links it and whichever runs came
\* before; and as long as every earlier run ended by completing or by a
\* KeyboardInterrupt whose handler saved the progress, the URL was never
\* added to downloaded_files by any run
C35_NoRepeatedDownload ==
    [][downloader'.fetch # "" =>
          /\ downloader'.fetch \notin downloader.progress.downloaded_files
          /\ downloader.progress_file.readable =>
                downloader'.fetch \notin
                    downloader.progress_file.content.downloaded_files
          /\ ~downloader.lost => downloader'.fetch \notin downloader.ever]_vars

\* a resumed run, with a.pdf on record, is at an item that links a.pdf again
\* and has passed it by without a download
C35_Witness ==
    /\ downloader.runs = 2 /\ downloader.pc = "links" /\ downloader.j = 2
    /\ downloader.items[downloader.idx][1] = "a.pdf"
    /\ downloader.fetch = "" /\ ~downloader.lost
    /\ "a.pdf" \in downloader.progress_file.content.downloaded_files

\* C36: when download_all has run to its end, every URL with an allowed
\* extension of every item is in downloaded_files or in failed_downloads of
\* the progress file, whatever interruptions and deaths came before
C36_EveryLinkRecorded ==
    (downloader.outcome = "DONE" /\ Len(downloader.items) > 0) =>
        /\ downloader.progress_file.readable
        /\ \A k \in 1..Len(downloader.items) :
               \A n \in 1..Len(downloader.items[k]) :
                   LET url == downloader.items[k][n]
                       content == downloader.progress_file.content
                   IN HasFilename(url) =>
                          url \in content.downloaded_files
                                  \cup content.failed_downloads

\* the second run completed after the first was cut short, with one URL
\* downloaded and one failed
C36_Witness ==
    /\ downloader.outcome = "DONE" /\ downloader.runs = 2
    /\ Len(downloader.items) = 2
    /\ downloader.progress_file.content.downloaded_files = {"a.pdf"}
    /\ downloader.progress_file.content.failed_downloads = {"b.DOCX"}
====
